---------------------------- MODULE Spec2Model ----------------------------
(***************************************************************************)
(* Model of the vocal alignment and scoring core of kivimedia/choirmind:   *)
(* processing.align_features and scoring.score_recording with the helpers  *)
(* they call.                                                              *)
(*                                                                         *)
(* Numbers.  The source computes in binary floating point; the model       *)
(* computes in fixed point, with one integer unit per quantity:            *)
(*   time            1 unit = 0.0001 s   (the precision of timing_offsets) *)
(*   frequency       1 unit = 0.05 Hz    (half of the 0.1 Hz of note "hz") *)
(*   raw cents       1 unit = 0.001 cent                                   *)
(*   pitch deviation 1 unit = 0.01 cent  (round(cents, 2))                 *)
(*   rms             1 unit = 0.0001                                       *)
(*   energy ratio    1 unit = 0.0001     (round(ratio, 4))                 *)
(*   report scores   1 unit = 0.1 point  (round(score, 1))                 *)
(* Means are kept as exact fractions [num, den] until the report rounds    *)
(* them.  NaN, None-pitch and non-positive Hz are all the frequency 0: the *)
(* source tests "is None or isnan or <= 0" wherever it reads a pitch.      *)
(* Python's None in a deviation array is the empty tuple None; a present   *)
(* value v is <<v>>.  Indices are 0-based as in the source.                *)
(***************************************************************************)
EXTENDS Integers, Sequences, FiniteSets, TLC

VARIABLES user_features, ref_features, alignment, report, ref_notes,
          user_notes, pc, error, req, env, job, quota, sessions, onset_time

\* The request, what the storage holds for it, and the database rows a
\* request of process_vocal_analysis reads and writes.
service == <<req, env, job, quota, sessions>>

vars == <<user_features, ref_features, alignment, report, ref_notes,
          user_notes, pc, error, req, env, job, quota, sessions, onset_time>>

-----------------------------------------------------------------------------
(* Arithmetic helpers *)

None == <<>>

Some(v) == <<v>>

Val(x) == x[1]

Abs(x) == IF x < 0 THEN -x ELSE x

Min2(a, b) == IF a <= b THEN a ELSE b

Max2(a, b) == IF a >= b THEN a ELSE b

\* The schoolbook rule, which Python does not use: n/d (d > 0) to the nearest
\* integer, every tie upwards.
RoundHalfUp(n, d) == (2 * n + d) \div (2 * d)

\* Python round(): n/d (d > 0) to the nearest integer, ties to even.
RoundDiv(n, d) ==
    LET q == n \div d
        r == n % d
    IN  IF 2 * r < d THEN q
        ELSE IF 2 * r > d THEN q + 1
        ELSE IF q % 2 = 0 THEN q ELSE q + 1

\* int(): truncation towards zero.
TruncDiv(n, d) == IF n >= 0 THEN n \div d ELSE -((-n) \div d)

RECURSIVE SumSeq(_)
SumSeq(s) == IF s = <<>> THEN 0 ELSE Head(s) + SumSeq(Tail(s))

\* The k-th smallest element of a non-empty sequence of integers (k from 1).
KthSmallest(s, k) ==
    LET i == CHOOSE a \in DOMAIN s :
                 /\ Cardinality({j \in DOMAIN s : s[j] < s[a]}) < k
                 /\ Cardinality({j \in DOMAIN s : s[j] <= s[a]}) >= k
    IN  s[i]

\* np.median, doubled so that it stays an integer: the middle element, or
\* the mean of the two middle elements.
Median2(s) ==
    LET n == Len(s)
    IN  IF n % 2 = 1 THEN 2 * KthSmallest(s, (n + 1) \div 2)
        ELSE KthSmallest(s, n \div 2) + KthSmallest(s, n \div 2 + 1)

\* s[:k] and s[k:] for 0 <= k.
Take(s, k) == SubSeq(s, 1, Min2(k, Len(s)))

Drop(s, k) == SubSeq(s, k + 1, Len(s))

\* The subsequence of s at the positions (1-based) where keep holds.
RECURSIVE FilterIdx(_, _, _)
FilterIdx(s, keep, i) ==
    IF i > Len(s) THEN <<>>
    ELSE IF keep[i] THEN <<s[i]>> \o FilterIdx(s, keep, i + 1)
    ELSE FilterIdx(s, keep, i + 1)

\* Integer square root by bisection on lo..hi (lo*lo <= x < (hi+1)^2).
RECURSIVE IsqrtIn(_, _, _)
IsqrtIn(x, lo, hi) ==
    IF lo >= hi THEN lo
    ELSE LET mid == (lo + hi + 1) \div 2
         IN  IF mid * mid <= x THEN IsqrtIn(x, mid, hi)
             ELSE IsqrtIn(x, lo, mid - 1)

Isqrt(x) == IsqrtIn(x, 0, 46340)


SetMin(S) == CHOOSE x \in S : \A y \in S : x <= y

SetMax(S) == CHOOSE x \in S : \A y \in S : x >= y

-----------------------------------------------------------------------------
(* Frequencies, cents and note names *)

\* 1200 * log2(hz / 440) in 0.001 cent, tabulated for the frequencies the
\* bounded inputs and their two-element medians can take (hz in 0.05 Hz).
CentsOfHz(h) ==
    CASE h = 3940 -> -1391169
      [] h = 4170 -> -1292947
      [] h = 4400 -> -1200000
      [] h = 4756 -> -1065306
      [] h = 4986 -> -983545
      [] h = 5320 -> -871293
      [] h = 5572 -> -791170
      [] h = 6122 -> -628201
      [] h = 6240 -> -595149
      [] h = 6352 -> -564351
      [] h = 6370 -> -559452
      [] h = 6470 -> -532485
      [] h = 6600 -> -498045
      [] h = 6632 -> -489671
      [] h = 6862 -> -430649
      [] h = 6938 -> -411580
      [] h = 7056 -> -382384
      [] h = 7186 -> -350778
      [] h = 7448 -> -288781
      [] h = 7520 -> -272125
      [] h = 8304 -> -100436
      [] h = 8422 -> -76009
      [] h = 8540 -> -51921
      [] h = 8552 -> -49490
      [] h = 8670 -> -25766
      [] h = 8800 -> 0
      [] h = 8814 -> 2752
      [] h = 8932 -> 25776
      [] h = 9014 -> 41597
      [] h = 9062 -> 50791
      [] h = 9324 -> 100135
      [] h = 9550 -> 141597

IsVoiced(f) == f > 0

\* The voiced entries of a pitch sequence, in order.
VoicedOf(pitch) == FilterIdx(pitch, [i \in DOMAIN pitch |-> IsVoiced(pitch[i])], 1)

\* np.median of a non-empty sequence of frequencies, in 0.05 Hz.  The inputs
\* are even multiples of the unit, so the mean of two of them is exact.
MedianHz(freqs) == Median2(freqs) \div 2

-----------------------------------------------------------------------------
(* processing.py: align_features and its helpers *)

\* Ten times max_ref_dur = user_dur * 1.2 + 5.0 (time units).
MaxRefDur10(user_dur) == 12 * user_dur + 500000

\* next(i for i, t in enumerate(times) if scale * t > lim), default len(times)
FirstAfter(times, lim, scale) ==
    LET hits == {i \in 1..Len(times) : scale * times[i] > lim}
    IN  IF hits = {} THEN Len(times) ELSE SetMin(hits) - 1

\* cut_idx: None, or the index of the first reference frame past the cutoff.
CutIdx(user, ref) ==
    IF 10 * ref.duration_s > MaxRefDur10(user.duration_s) /\ ref.pitch_times # <<>>
    THEN Some(FirstAfter(ref.pitch_times, MaxRefDur10(user.duration_s), 10))
    ELSE None

\* Python truth value of cut_idx: None and 0 are both false.
Truthy(cut) == cut # None /\ Val(cut) # 0

\* ref_pitch = ref_pitch_raw[:cut_idx] whenever the trim branch ran.
RefPitch(user, ref) ==
    LET cut == CutIdx(user, ref)
    IN  IF cut # None THEN Take(ref.pitch_values, Val(cut)) ELSE ref.pitch_values

\* ref_times = ref_times_raw[:cut_idx] if cut_idx else ref_times_raw
RefTimes(user, ref) ==
    LET cut == CutIdx(user, ref)
    IN  IF Truthy(cut) THEN Take(ref.pitch_times, Val(cut)) ELSE ref.pitch_times

\* rms_cut, when cut_idx is true and the reference has rms times.
RmsCut(user, ref) ==
    IF Truthy(CutIdx(user, ref)) /\ ref.rms_times # <<>>
    THEN Some(FirstAfter(ref.rms_times, MaxRefDur10(user.duration_s), 10))
    ELSE None

RefRms(user, ref) ==
    LET c == RmsCut(user, ref)
    IN  IF c # None THEN Take(ref.rms_values, Val(c)) ELSE ref.rms_values

RefRmsTimes(user, ref) ==
    LET c == RmsCut(user, ref)
    IN  IF c # None THEN Take(ref.rms_times, Val(c)) ELSE ref.rms_times

\* _nearest_idx: argmin |arr - value| (the first minimum), 0-based.
NearestIdx(arr, value) ==
    LET best == SetMin({Abs(arr[i] - value) : i \in DOMAIN arr})
    IN  SetMin({i \in DOMAIN arr : Abs(arr[i] - value) = best}) - 1

\* Parameter defaults of _detect_singing_onset.
FRAME_DUR == 200
WINDOW_S == 10000
MAX_SEARCH_S == 50000
VOICING_THRESH_PCT == 30
STABILITY_THRESH_CENTS == 200
PITCH_MATCH_CENTS == 500
REF_HEAD_S == 50000
ONSET_TRIM_S == 2000

\* The raw deviation left unfolded.
Unfolded(c) == c

\* ((c + 600) % 1200) - 600 on raw cents (0.001 cent).
FoldCents(c) == ((c + 600000) % 1200000) - 600000

\* np.std(cents_from_median) > limit, on whole cents, as a comparison of
\* n * sum(x^2) - sum(x)^2 with (limit * n)^2.
StdExceeds(xs, limit) ==
    LET n == Len(xs)
        s1 == SumSeq(xs)
        s2 == SumSeq([i \in DOMAIN xs |-> xs[i] * xs[i]])
    IN  n * s2 - s1 * s1 > limit * limit * n * n

\* The window checks without the range match against the reference.
WindowPassesUnmatched(user_pitch, start, end, ref_median_hz) ==
    LET window == SubSeq(user_pitch, start + 1, end)
        voiced == VoicedOf(window)
        median_hz == MedianHz(voiced)
        cents == [i \in DOMAIN voiced |->
                    RoundDiv(CentsOfHz(voiced[i]) - CentsOfHz(median_hz), 1000)]
    IN  /\ Len(window) > 0
        /\ 100 * Len(voiced) >= VOICING_THRESH_PCT * Len(window)
        /\ Len(voiced) >= 3
        /\ ~StdExceeds(cents, STABILITY_THRESH_CENTS)

\* Whether the window user_pitch[start:end] passes the three checks.
WindowPasses(user_pitch, start, end, ref_median_hz) ==
    LET window == SubSeq(user_pitch, start + 1, end)
        voiced == VoicedOf(window)
        median_hz == MedianHz(voiced)
        cents == [i \in DOMAIN voiced |->
                    RoundDiv(CentsOfHz(voiced[i]) - CentsOfHz(median_hz), 1000)]
        diff == Abs(FoldCents(CentsOfHz(median_hz) - CentsOfHz(ref_median_hz)))
    IN  /\ Len(window) > 0
        /\ 100 * Len(voiced) >= VOICING_THRESH_PCT * Len(window)
        /\ Len(voiced) >= 3
        /\ ~StdExceeds(cents, STABILITY_THRESH_CENTS)
        /\ diff <= PITCH_MATCH_CENTS * 1000

\* A step of half a window.
OnsetStepHalf(window_frames) == Max2(1, window_frames \div 2)

\* step = max(1, window_frames // 4)
OnsetStep(window_frames) == Max2(1, window_frames \div 4)

\* _detect_singing_onset: the time of the first passing window, else 0.
DetectSingingOnset(user_pitch, user_times, ref_pitch, ref_times) ==
    IF Len(user_pitch) = 0 \/ Len(ref_pitch) = 0 \/ Len(user_times) = 0 THEN 0
    ELSE
    LET max_search_s == Min2(MAX_SEARCH_S, user_times[Len(user_times)])
        window_frames == Max2(1, TruncDiv(WINDOW_S, FRAME_DUR))
        max_search_frames == Min2(Len(user_pitch), TruncDiv(max_search_s, FRAME_DUR))
        ref_first_5s_idx == FirstAfter(ref_times, REF_HEAD_S, 1)
        ref_first_voiced == VoicedOf(Take(ref_pitch, ref_first_5s_idx))
        step == OnsetStep(window_frames)
        starts == {s \in 0..(max_search_frames - 1) : s % step = 0}
        passing == {s \in starts :
                      WindowPasses(user_pitch, s,
                                   Min2(s + window_frames, Len(user_pitch)),
                                   MedianHz(ref_first_voiced))}
    IN  IF Len(ref_first_voiced) = 0 \/ passing = {} THEN 0
        ELSE LET start == SetMin(passing)
             IN  IF start < Len(user_times) THEN user_times[start + 1] ELSE 0

\* user_frame_offset: the number of leading user frames trimmed before DTW.
UserFrameOffset(user_pitch, user_times, singing_onset) ==
    IF singing_onset > ONSET_TRIM_S /\ Len(user_times) > 0
    THEN LET hits == {i \in 1..Len(user_times) : user_times[i] >= singing_onset}
             trim_idx == IF hits = {} THEN 0 ELSE SetMin(hits) - 1
         IN  IF 0 < trim_idx /\ trim_idx < Len(user_pitch) THEN trim_idx ELSE 0
    ELSE 0

\* np.interp(x, xp, fp) for one x over increasing xp: the end values outside
\* the grid, the linear interpolant inside it.
Interp1(x, xp, fp) ==
    IF x <= xp[1] THEN fp[1]
    ELSE IF x >= xp[Len(xp)] THEN fp[Len(fp)]
    ELSE LET j == SetMax({i \in 1..(Len(xp) - 1) : xp[i] <= x})
         IN  fp[j] + ((fp[j + 1] - fp[j]) * (x - xp[j])) \div (xp[j + 1] - xp[j])

Interp(xs, xp, fp) == [i \in DOMAIN xs |-> Interp1(xs[i], xp, fp)]

\* np.interp raises ValueError on an empty grid or on fp and xp of
\* different length.
InterpRaises(xp, fp) == Len(xp) = 0 \/ Len(fp) # Len(xp)

\* 1200 * log2(50 / 440) and 1200 * log2(2000 / 440) in 0.001 cent.
CENTS_50HZ == -3765004
CENTS_2000HZ == 2621309

\* Component weights of the DTW feature vector, in 1/10000.
W_PITCH == 10000
W_VOICING == 5000
W_RMS == 3000

\* One row of _build_dtw_features: <<log_pitch, voicing, rms>> weighted, in
\* 1/10000.
DtwFeature(f, rms) ==
    LET c == IF IsVoiced(f)
             THEN Min2(Max2(CentsOfHz(f), CENTS_50HZ), CENTS_2000HZ) ELSE CENTS_50HZ
        log_p_norm == IF IsVoiced(f)
                      THEN (((c - CENTS_50HZ) \div 100) * 10000)
                             \div ((CENTS_2000HZ - CENTS_50HZ) \div 100)
                      ELSE 0
    IN  << (log_p_norm * W_PITCH) \div 10000,
           IF IsVoiced(f) THEN W_VOICING ELSE 0,
           (Min2(Max2(rms, 0), 10000) * W_RMS) \div 10000 >>

\* _build_dtw_features; np.column_stack raises ValueError when the pitch and
\* the interpolated rms differ in length.
BuildDtwFeatures(pitch, rms_interp) ==
    [i \in DOMAIN pitch |-> DtwFeature(pitch[i], rms_interp[i])]

BuildRaises(pitch, rms_interp) == Len(pitch) # Len(rms_interp)

\* scipy euclidean distance of two feature rows.
Euclidean(a, b) ==
    Isqrt((a[1] - b[1]) * (a[1] - b[1]) + (a[2] - b[2]) * (a[2] - b[2])
          + (a[3] - b[3]) * (a[3] - b[3]))

\* The warping paths from (0, 0) to (i, j): each step advances the user
\* index, the reference index, or both, by one.
RECURSIVE WarpPaths(_, _)
WarpPaths(i, j) ==
    IF i = 0 /\ j = 0 THEN {<< <<0, 0>> >>}
    ELSE LET from(a, b) == IF a < 0 \/ b < 0 THEN {}
                           ELSE {Append(p, <<i, j>>) : p \in WarpPaths(a, b)}
         IN  from(i - 1, j) \cup from(i, j - 1) \cup from(i - 1, j - 1)

PathCost(p, x, y) ==
    SumSeq([k \in DOMAIN p |-> Euclidean(x[p[k][1] + 1], y[p[k][2] + 1])])

\* fastdtw(x, y, dist=euclidean, radius=50) for non-empty x and y shorter
\* than radius + 2 frames, where the library runs plain DTW: the warping
\* paths of minimal summed distance.  Which of several minimal paths it
\* returns is the library's tie-break; the caller takes any of them.
FastDtwPaths(x, y) ==
    LET all == WarpPaths(Len(x) - 1, Len(y) - 1)
        d == [i \in DOMAIN x, j \in DOMAIN y |-> Euclidean(x[i], y[j])]
        cost(p) == SumSeq([k \in DOMAIN p |-> d[p[k][1] + 1, p[k][2] + 1]])
        best == SetMin({cost(p) : p \in all})
    IN  {p \in all : cost(p) = best}

\* On sequences of radius + 2 frames or more the library searches a band
\* around a coarser path, and the path it returns need not be minimal: all
\* it promises is a warping path.
AnyWarpPaths(x, y) == WarpPaths(Len(x) - 1, Len(y) - 1)

\* With both sequences empty the library returns (0, []); with exactly one
\* of them empty its path walk fails with IndexError.
FastDtwRaises(x, y) == (Len(x) = 0) # (Len(y) = 0)

\* A deviation of 0 recorded for an unvoiced user frame against a voiced
\* reference frame.
PitchDeviationZeroUnvoiced(u_f, r_f) ==
    IF ~IsVoiced(r_f) THEN None
    ELSE IF ~IsVoiced(u_f) THEN Some(0)
    ELSE Some(RoundDiv(FoldCents(CentsOfHz(u_f) - CentsOfHz(r_f)), 10))

\* The pitch deviation of one aligned pair in 0.01 cent: None when either
\* frame is unvoiced, else the folded cents rounded to two decimals.
PitchDeviation(u_f, r_f) ==
    IF ~IsVoiced(u_f) \/ ~IsVoiced(r_f) THEN None
    ELSE Some(RoundDiv(FoldCents(CentsOfHz(u_f) - CentsOfHz(r_f)), 10))

\* The energy ratio of one aligned pair in 0.0001: None when the reference
\* energy is not above 1e-6.
EnergyRatio(u_e, r_e) ==
    IF r_e * 100 > 1 THEN Some(RoundDiv(u_e * 10000, r_e)) ELSE None

\* The comparison with an unvoiced pair ranked as an exact one.
DedupAbsUnvoicedZero(dev) == IF dev # None THEN Abs(Val(dev)) ELSE 0

\* |dev| as the deduplication compares it: 999 (cents) for an unvoiced pair.
DedupAbs(dev) == IF dev # None THEN Abs(Val(dev)) ELSE 99900

\* dedup[u_idx] after the scan of the first k pairs: the kept pair index
\* (1-based position in the path) of every user index seen.
RECURSIVE DedupScan(_, _, _)
DedupScan(path, devs, k) ==
    IF k = 0 THEN [u \in {} |-> 0]
    ELSE LET prev == DedupScan(path, devs, k - 1)
             u_idx == path[k][1]
         IN  IF u_idx \notin DOMAIN prev
             THEN [u \in DOMAIN prev \cup {u_idx} |->
                     IF u = u_idx THEN k ELSE prev[u]]
             ELSE IF DedupAbs(devs[k]) < DedupAbs(devs[prev[u_idx]])
                  THEN [prev EXCEPT ![u_idx] = k]
                  ELSE prev

\* A path walk without deduplication: every pair is kept.
DedupKeepAll(path, devs) == [k \in DOMAIN path |-> TRUE]

\* keep = sorted(dedup.values()), as a boolean mask over the path.
DedupKeep(path, devs) ==
    LET dedup == DedupScan(path, devs, Len(path))
    IN  [k \in DOMAIN path |-> \E u \in DOMAIN dedup : dedup[u] = k]

\* The normalisation with ties rounded upwards instead of to even.
NormalizeTimingHalfUp(raw) ==
    IF raw = <<>> THEN <<>>
    ELSE LET baseline2 == Median2(raw)
         IN  [i \in DOMAIN raw |-> RoundHalfUp(2 * raw[i] - baseline2, 2)]

\* timing_offsets: each raw offset minus the median baseline, rounded to
\* four decimals (one time unit).
NormalizeTiming(raw) ==
    IF raw = <<>> THEN <<>>
    ELSE LET baseline2 == Median2(raw)
         IN  [i \in DOMAIN raw |-> RoundDiv(2 * raw[i] - baseline2, 2)]

\* Parameter defaults of _check_path_sanity.
SAMPLE_INTERVAL_S == 10000

\* The path samples taken at least sample_interval_s apart in user time:
\* <<u_t, r_t>> pairs, after the scan of the first k pairs.
RECURSIVE SanitySamples(_, _, _, _)
SanitySamples(path, user_times, ref_times, k) ==
    IF k = 0 THEN <<>>
    ELSE LET prev == SanitySamples(path, user_times, ref_times, k - 1)
             u_idx == path[k][1]
             r_idx == path[k][2]
             u_t == IF u_idx < Len(user_times) THEN user_times[u_idx + 1] ELSE 0
             r_t == IF r_idx < Len(ref_times) THEN ref_times[r_idx + 1] ELSE 0
         IN  IF prev = <<>> \/ u_t - prev[Len(prev)][1] >= SAMPLE_INTERVAL_S
             THEN Append(prev, <<u_t, r_t>>)
             ELSE prev

\* A drift test that also flags a slope of exactly 2.0.
IsDriftFromTwo(du, dr) ==
    IF dr = 0 THEN TRUE
    ELSE IF dr > 0 THEN 2 * du < dr \/ du >= 2 * dr
    ELSE TRUE

\* slope = du / dr is outside [0.5, 2.0]; dr = 0 is the infinite slope.
IsDrift(du, dr) ==
    IF dr = 0 THEN TRUE
    ELSE IF dr > 0 THEN 2 * du < dr \/ du > 2 * dr
    ELSE 2 * du > dr \/ du < 2 * dr

\* _check_path_sanity.  Slopes are carried in 0.0001, avg_slope in 0.001;
\* times of a drift region in 0.01 s.
CheckPathSanity(path, user_times, ref_times) ==
    LET samples == SanitySamples(path, user_times, ref_times, Len(path))
        n == Len(samples)
        du(i) == samples[i][1] - samples[i - 1][1]
        dr(i) == samples[i][2] - samples[i - 1][2]
        drift == {i \in 2..n : IsDrift(du(i), dr(i))}
        finite == {i \in 2..n : dr(i) # 0}
        slopes == [i \in 2..n |-> IF dr(i) = 0 THEN 0
                                  ELSE IF dr(i) > 0 THEN RoundDiv(du(i) * 10000, dr(i))
                                  ELSE -RoundDiv(du(i) * 10000, -dr(i))]
        total(S) == SumSeq([k \in 1..(n - 1) |-> IF (k + 1) \in S THEN slopes[k + 1] ELSE 0])
    IN  IF Len(path) < 2 \/ n < 2
        THEN [is_sane |-> TRUE, drift_regions |-> <<>>, avg_slope |-> 1000]
        ELSE [is_sane |-> drift = {},
              drift_regions |->
                  FilterIdx([i \in 1..n |->
                               IF i = 1 THEN <<>>
                               ELSE [user_time |-> RoundDiv(samples[i][1], 100),
                                     ref_time |-> RoundDiv(samples[i][2], 100),
                                     slope |-> IF dr(i) = 0 THEN None
                                               ELSE Some(RoundDiv(slopes[i], 10))]],
                            [i \in 1..n |-> i \in drift], 1),
              avg_slope |-> IF finite = {} THEN 1000
                            ELSE RoundDiv(total(finite), 10 * Cardinality(finite))]

\* The arrays np.interp and np.column_stack see, and whether they raise
\* before DTW runs (steps (a) to (f) of align_features).
PrepUser(user, ref) ==
    LET user_pitch == user.pitch_values
        user_times == user.pitch_times
        singing_onset == DetectSingingOnset(user_pitch, user_times,
                                            RefPitch(user, ref), RefTimes(user, ref))
        offset == UserFrameOffset(user_pitch, user_times, singing_onset)
    IN  [offset |-> offset,
         pitch_dtw |-> Drop(user_pitch, offset),
         times_dtw |-> Drop(user_times, offset)]

PrepRaises(user, ref) ==
    LET pu == PrepUser(user, ref)
    IN  \/ InterpRaises(user.rms_times, user.rms_values)
        \/ InterpRaises(RefRmsTimes(user, ref), RefRms(user, ref))
        \/ BuildRaises(pu.pitch_dtw, pu.times_dtw)
        \/ BuildRaises(RefPitch(user, ref), RefTimes(user, ref))

UserSeq(user, ref) ==
    LET pu == PrepUser(user, ref)
    IN  BuildDtwFeatures(pu.pitch_dtw,
                         Interp(pu.times_dtw, user.rms_times, user.rms_values))

RefSeq(user, ref) ==
    BuildDtwFeatures(RefPitch(user, ref),
                     Interp(RefTimes(user, ref), RefRmsTimes(user, ref),
                            RefRms(user, ref)))

\* arr[idx] if idx < len(arr) else 0 (an unvoiced frame, or time 0.0).
FrameAt(arr, idx) == IF idx < Len(arr) THEN arr[idx + 1] ELSE 0

\* The rms value looked up for path index idx: at the rms frame nearest in
\* time to the pitch frame, rms index 0 when idx is past the time array,
\* and 0.0 when the rms index is past the rms array.
RmsAt(times, rms_times, rms, idx) ==
    FrameAt(rms, IF idx < Len(times) THEN NearestIdx(rms_times, FrameAt(times, idx))
                 ELSE 0)

\* The path left in the indices of the trimmed user stream.
ShiftPathNone(dtw_path, offset) == dtw_path

\* Step (h): the path shifted back by user_frame_offset.
ShiftPath(dtw_path, offset) ==
    [k \in DOMAIN dtw_path |-> <<dtw_path[k][1] + offset, dtw_path[k][2]>>]

\* Steps (i) to (l) of align_features on the shifted path, and the dict it
\* returns.
AlignPairs(user_pitch, user_times, ref_pitch, ref_times, user_rms, user_rms_times, ref_rms, ref_rms_times, path, distance) ==
    LET devs_all == [k \in DOMAIN path |->
                       PitchDeviation(FrameAt(user_pitch, path[k][1]),
                                      FrameAt(ref_pitch, path[k][2]))]
        raw_all == [k \in DOMAIN path |->
                      FrameAt(user_times, path[k][1]) - FrameAt(ref_times, path[k][2])]
        energy_all == [k \in DOMAIN path |->
                         EnergyRatio(RmsAt(user_times, user_rms_times, user_rms, path[k][1]),
                                     RmsAt(ref_times, ref_rms_times, ref_rms, path[k][2]))]
        keep == DedupKeep(path, devs_all)
        path_dedup == FilterIdx(path, keep, 1)
    IN  [path |-> path_dedup,
         dtw_distance |-> distance,
         pitch_deviations |-> FilterIdx(devs_all, keep, 1),
         timing_offsets |-> NormalizeTiming(FilterIdx(raw_all, keep, 1)),
         energy_ratios |-> FilterIdx(energy_all, keep, 1),
         path_sanity |-> CheckPathSanity(path_dedup, user_times, ref_times)]

\* align_features from the DTW result on: steps (h) to (l).
AlignFrom(user, ref, dtw_path, distance) ==
    AlignPairs(user.pitch_values, user.pitch_times,
               RefPitch(user, ref), RefTimes(user, ref),
               user.rms_values, user.rms_times,
               RefRms(user, ref), RefRmsTimes(user, ref),
               ShiftPath(dtw_path, PrepUser(user, ref).offset), distance)

-----------------------------------------------------------------------------
(* scoring.py: note names *)

\* Strings are sequences of one-character strings.
NOTE_NAMES ==
    << <<"D", "o">>, <<"D", "o", "#">>, <<"R", "e">>, <<"R", "e", "#">>,
       <<"M", "i">>, <<"F", "a">>, <<"F", "a", "#">>, <<"S", "o", "l">>,
       <<"S", "o", "l", "#">>, <<"L", "a">>, <<"L", "a", "#">>, <<"S", "i">> >>

Digits == <<"0", "1", "2", "3", "4", "5", "6", "7", "8", "9">>

IsDigit(ch) == \E d \in DOMAIN Digits : Digits[d] = ch

DigitValue(ch) == (CHOOSE d \in DOMAIN Digits : Digits[d] = ch) - 1

\* str(n) for an integer n.
RECURSIVE NatToStr(_)
NatToStr(n) ==
    IF n < 10 THEN <<Digits[n + 1]>>
    ELSE Append(NatToStr(n \div 10), Digits[(n % 10) + 1])

IntToStr(n) == IF n < 0 THEN <<"-">> \o NatToStr(-n) ELSE NatToStr(n)

\* _hz_to_midi: round(12 * log2(hz / 440)) + 69.
HzToMidi(hz) == RoundDiv(CentsOfHz(hz), 100000) + 69

\* _hz_to_note for a positive frequency: name and octave, e.g. La4.
HzToNote(hz) ==
    LET midi == HzToMidi(hz)
    IN  NOTE_NAMES[(midi % 12) + 1] \o IntToStr(midi \div 12 - 1)

\* The length of the prefix left after stripping trailing digits and '-'.
RECURSIVE ClassLen(_, _)
ClassLen(note_str, i) ==
    IF i > 0 /\ (IsDigit(note_str[i]) \/ note_str[i] = "-")
    THEN ClassLen(note_str, i - 1)
    ELSE i

\* _note_class: the pitch class of a note string, None when nothing is left.
NoteClass(note_str) ==
    LET i == ClassLen(note_str, Len(note_str))
    IN  IF note_str = <<>> \/ i = 0 THEN None ELSE Some(SubSeq(note_str, 1, i))

RECURSIVE DigitsToNat(_)
DigitsToNat(s) ==
    IF s = <<>> THEN 0
    ELSE 10 * DigitsToNat(SubSeq(s, 1, Len(s) - 1)) + DigitValue(s[Len(s)])

\* int(s): an optional sign followed by at least one digit, else ValueError.
IsIntLiteral(s) ==
    LET body == IF s # <<>> /\ s[1] = "-" THEN Tail(s) ELSE s
    IN  body # <<>> /\ \A k \in DOMAIN body : IsDigit(body[k])

\* _octave_num: the octave of a note string, None when it does not parse.
OctaveNum(note_str) ==
    LET i == ClassLen(note_str, Len(note_str))
        tail == SubSeq(note_str, i + 1, Len(note_str))
    IN  IF note_str = <<>> \/ ~IsIntLiteral(tail) THEN None
        ELSE IF tail[1] = "-" THEN Some(-DigitsToNat(Tail(tail)))
        ELSE Some(DigitsToNat(tail))

-----------------------------------------------------------------------------
(* scoring.py: note extraction and pairing *)

\* Parameter defaults of _extract_notes and _align_notes, and
\* _NOTE_MATCH_CENTS.
MIN_DURATION_S == 1200
CENTS_THRESHOLD == 100
ONSET_TOLERANCE_S == 500
NOTE_MATCH_CENTS == 100
TOLERANCE_S == 2000
SEARCH_AHEAD == 8

\* zip(pitch_values, pitch_times) stops at the shorter of the two.
ZipLen(pitch_values, pitch_times) == Min2(Len(pitch_values), Len(pitch_times))

\* onset_frames: the pitch frame nearest to each onset, when it lies within
\* 50 ms of it (0-based frame indices).
OnsetFrames(onset_times, pitch_times) ==
    IF onset_times = <<>> \/ pitch_times = <<>> THEN {}
    ELSE {NearestIdx(pitch_times, onset_times[o]) : o \in
            {o \in DOMAIN onset_times :
               Abs(pitch_times[NearestIdx(pitch_times, onset_times[o]) + 1]
                   - onset_times[o]) < ONSET_TOLERANCE_S}}

\* energy_dip_frames: the pitch frame nearest to each rms local minimum that
\* falls below 0.7 of its predecessor and whose successor exceeds 1.3 of it.
EnergyDipFrames(rms_values, rms_times, pitch_times) ==
    IF rms_values = <<>> \/ rms_times = <<>> \/ pitch_times = <<>> THEN {}
    ELSE {NearestIdx(pitch_times, rms_times[ri]) : ri \in
            {ri \in 2..(Len(rms_values) - 1) :
               /\ rms_values[ri - 1] > 0
               /\ 10 * rms_values[ri] < 7 * rms_values[ri - 1]
               /\ 10 * rms_values[ri + 1] > 13 * rms_values[ri]
               /\ Abs(pitch_times[NearestIdx(pitch_times, rms_times[ri]) + 1]
                      - rms_times[ri]) < ONSET_TOLERANCE_S}}

\* One note dict: times in ms (round(t, 3)), hz rounded to 0.1 Hz.
NoteDict(start, end, freqs) ==
    [startTime |-> RoundDiv(start, 10),
     endTime |-> RoundDiv(end, 10),
     note |-> HzToNote(MedianHz(freqs)),
     hz |-> 2 * RoundDiv(MedianHz(freqs), 2)]

\* Every candidate emitted, whatever its duration.
EmitAlways(notes, start, end, freqs) == Append(notes, NoteDict(start, end, freqs))

\* The candidate is emitted when it lasted at least min_duration_s.
EmitIfLong(notes, start, end, freqs) ==
    IF end - start >= MIN_DURATION_S THEN Append(notes, NoteDict(start, end, freqs))
    ELSE notes

\* An onset or energy dip that splits whatever the candidate's duration.
SplitSignalAlways(at_frame, note_dur) == at_frame

\* has_onset, has_energy_dip: the frame carries the signal and the
\* candidate already lasts min_duration_s.
SplitSignal(at_frame, note_dur) == at_frame /\ note_dur >= MIN_DURATION_S

\* The loop of _extract_notes after its first k frames: the notes so far,
\* the open candidate, and whether the max_time_s break was taken.
\* max_time10 is None or ten times max_time_s.
RECURSIVE ExtractScan(_, _, _, _, _, _)
ExtractScan(pitch_values, pitch_times, onset_frames, dip_frames, max_time10, k) ==
    IF k = 0
    THEN [notes |-> <<>>, current_freqs |-> <<>>, current_start |-> None,
          stopped |-> FALSE]
    ELSE
    LET st == ExtractScan(pitch_values, pitch_times, onset_frames, dip_frames,
                          max_time10, k - 1)
        freq == pitch_values[k]
        t == pitch_times[k]
        frame_idx == k - 1
    IN  IF st.stopped THEN st
        ELSE IF max_time10 # None /\ 10 * t > Val(max_time10)
        THEN [st EXCEPT !.stopped = TRUE]
        ELSE IF ~IsVoiced(freq)
        THEN IF st.current_freqs # <<>> /\ st.current_start # None
             THEN [st EXCEPT !.notes = EmitIfLong(st.notes, Val(st.current_start),
                                                  t, st.current_freqs),
                             !.current_freqs = <<>>,
                             !.current_start = None]
             ELSE st
        ELSE IF st.current_start = None
        THEN [st EXCEPT !.current_start = Some(t), !.current_freqs = <<freq>>]
        ELSE
        LET start == Val(st.current_start)
            note_dur == t - start
            has_onset == SplitSignal(frame_idx \in onset_frames, note_dur)
            has_energy_dip == SplitSignal(frame_idx \in dip_frames, note_dur)
            cents_diff == Abs(CentsOfHz(freq) - CentsOfHz(MedianHz(st.current_freqs)))
        IN  IF cents_diff > CENTS_THRESHOLD * 1000 \/ has_onset \/ has_energy_dip
            THEN [st EXCEPT !.notes = EmitIfLong(st.notes, start, t, st.current_freqs),
                            !.current_start = Some(t),
                            !.current_freqs = <<freq>>]
            ELSE [st EXCEPT !.current_freqs = Append(st.current_freqs, freq)]

\* _extract_notes: the scan, then the last open candidate closed at
\* pitch_times[-1].
ExtractNotes(pitch_values, pitch_times, onset_times, rms_values, rms_times, max_time10) ==
    LET st == ExtractScan(pitch_values, pitch_times,
                          OnsetFrames(onset_times, pitch_times),
                          EnergyDipFrames(rms_values, rms_times, pitch_times),
                          max_time10, ZipLen(pitch_values, pitch_times))
    IN  IF st.current_freqs # <<>> /\ st.current_start # None
        THEN LET last_t == IF pitch_times # <<>> THEN pitch_times[Len(pitch_times)]
                           ELSE Val(st.current_start)
             IN  EmitIfLong(st.notes, Val(st.current_start), last_t, st.current_freqs)
        ELSE st.notes

\* _cents_between, in 0.001 cent.
CentsBetween(hz_a, hz_b) ==
    IF hz_a <= 0 \/ hz_b <= 0 THEN 9999000
    ELSE Abs(CentsOfHz(hz_a) - CentsOfHz(hz_b))

\* The search of _align_notes started one user note late.
BestMatchSkipFirst(ref, user_nts, u_start) ==
    LET cands == {j \in (u_start + 1)..(Min2(u_start + SEARCH_AHEAD, Len(user_nts)) - 1) :
                    Abs(user_nts[j + 1].startTime - ref.startTime) <= TOLERANCE_S}
        diff(j) == Abs(user_nts[j + 1].startTime - ref.startTime)
    IN  IF cands = {} THEN None
        ELSE LET best == SetMin({diff(j) : j \in cands})
             IN  Some(SetMin({j \in cands : diff(j) = best}))

\* The search of _align_notes keeping the last of the nearest candidates.
BestMatchLastOnTies(ref, user_nts, u_start) ==
    LET cands == {j \in u_start..(Min2(u_start + SEARCH_AHEAD, Len(user_nts)) - 1) :
                    Abs(user_nts[j + 1].startTime - ref.startTime) <= TOLERANCE_S}
        diff(j) == Abs(user_nts[j + 1].startTime - ref.startTime)
    IN  IF cands = {} THEN None
        ELSE LET best == SetMin({diff(j) : j \in cands})
             IN  Some(SetMax({j \in cands : diff(j) = best}))

\* The user note _align_notes picks for one reference note: the candidate
\* among user_notes[u_start : u_start + 8] nearest in start time, within
\* tolerance_s, the first one on ties (0-based), or None.
BestMatch(ref, user_nts, u_start) ==
    LET cands == {j \in u_start..(Min2(u_start + SEARCH_AHEAD, Len(user_nts)) - 1) :
                    Abs(user_nts[j + 1].startTime - ref.startTime) <= TOLERANCE_S}
        diff(j) == Abs(user_nts[j + 1].startTime - ref.startTime)
    IN  IF cands = {} THEN None
        ELSE LET best == SetMin({diff(j) : j \in cands})
             IN  Some(SetMin({j \in cands : diff(j) = best}))

\* The pitch class match of the note names alone.
PitchClassByName(note_match, class_match) == class_match

\* pitch_class_match after the override: a note match counts as a pitch
\* class match whatever the names say.
PitchClassMatch(note_match, class_match) ==
    IF note_match /\ class_match # Some(TRUE) THEN Some(TRUE) ELSE class_match

\* A note match that leaves out a distance of exactly _NOTE_MATCH_CENTS.
NoteMatchExclusive(cents_off) == cents_off < NOTE_MATCH_CENTS * 1000

\* note_match: the Hz distance (0.001 cent) is within _NOTE_MATCH_CENTS.
NoteMatch(cents_off) == cents_off <= NOTE_MATCH_CENTS * 1000

\* The aligned pair appended for reference note r_idx.
NotePair(r_idx, ref, user_nts, best_match) ==
    IF best_match # None
    THEN LET user == user_nts[Val(best_match) + 1]
             ref_class == NoteClass(ref.note)
             user_class == NoteClass(user.note)
             ref_oct == OctaveNum(ref.note)
             user_oct == OctaveNum(user.note)
             cents_off == CentsBetween(ref.hz, user.hz)
             note_match == NoteMatch(cents_off)
             class_match == IF ref_class # None /\ user_class # None
                            THEN Some(ref_class = user_class) ELSE None
         IN  [noteIndex |-> r_idx,
              refNote |-> ref.note,
              refStartTime |-> ref.startTime,
              refEndTime |-> ref.endTime,
              userNote |-> Some(user.note),
              userStartTime |-> Some(user.startTime),
              userEndTime |-> Some(user.endTime),
              noteMatch |-> note_match,
              pitchClassMatch |-> PitchClassMatch(note_match, class_match),
              octaveDiff |-> IF user_oct # None /\ ref_oct # None
                             THEN Some(Val(user_oct) - Val(ref_oct)) ELSE None,
              centsOff |-> Some(RoundDiv(cents_off, 100)),
              timingOffsetMs |-> Some(user.startTime - ref.startTime)]
    ELSE [noteIndex |-> r_idx,
          refNote |-> ref.note,
          refStartTime |-> ref.startTime,
          refEndTime |-> ref.endTime,
          userNote |-> None,
          userStartTime |-> None,
          userEndTime |-> None,
          noteMatch |-> FALSE,
          pitchClassMatch |-> None,
          octaveDiff |-> None,
          centsOff |-> None,
          timingOffsetMs |-> None]

\* A cursor that stays where it is after a match.
KeepCursor(best_match, u_start) == u_start

\* u_start after one reference note: just past the match, or unchanged.
NextCursor(best_match, u_start) ==
    IF best_match # None THEN Val(best_match) + 1 ELSE u_start

\* The loop of _align_notes after its first k reference notes.
RECURSIVE AlignNotesScan(_, _, _)
AlignNotesScan(ref_nts, user_nts, k) ==
    IF k = 0 THEN [aligned |-> <<>>, u_start |-> 0]
    ELSE LET st == AlignNotesScan(ref_nts, user_nts, k - 1)
             best == BestMatch(ref_nts[k], user_nts, st.u_start)
         IN  [aligned |-> Append(st.aligned,
                                 NotePair(k - 1, ref_nts[k], user_nts, best)),
              u_start |-> NextCursor(best, st.u_start)]

\* The pairs of _align_notes without the entries of unmatched reference
\* notes.
AlignNotesMatchedOnly(ref_nts, user_nts) ==
    LET IsMatched(pair) == pair.userNote # None
    IN  SelectSeq(AlignNotesScan(ref_nts, user_nts, Len(ref_nts)).aligned, IsMatched)

AlignNotes(ref_nts, user_nts) == AlignNotesScan(ref_nts, user_nts, Len(ref_nts)).aligned

-----------------------------------------------------------------------------
(* scoring.py: the sub-scorers *)

\* Thresholds: cents in 0.01 cent, seconds in time units, ratios in 0.0001.
PITCH_PERFECT_CENTS == 10000
PITCH_ZERO_CENTS == 40000
TIMING_PERFECT_S == 5000
TIMING_ZERO_S == 20000
DYNAMICS_PERFECT_LOW == 5000
DYNAMICS_PERFECT_HIGH == 20000
DYNAMICS_ZERO_LOW == 2000
DYNAMICS_ZERO_HIGH == 30000
\* WEIGHT_PITCH, WEIGHT_TIMING, WEIGHT_DYNAMICS in twentieths.
WEIGHT_PITCH == 14
WEIGHT_TIMING == 3
WEIGHT_DYNAMICS == 3
SECTION_DURATION_S == 10000

\* A mean of per-sample scores is kept exact: sum is the sum of the sample
\* scores in 1/300 point (every sample score is a whole number of them),
\* n their count.  Fifty is the default of an empty mean.
Fifty == [sum |-> 15000, n |-> 1]

ZeroScore == [sum |-> 0, n |-> 1]

MeanOf(scores) ==
    IF scores = <<>> THEN Fifty ELSE [sum |-> SumSeq(scores), n |-> Len(scores)]

\* The values of a deviation array that are not None.
Present(xs) == FilterIdx([i \in DOMAIN xs |-> IF xs[i] = None THEN 0 ELSE Val(xs[i])],
                         [i \in DOMAIN xs |-> xs[i] # None], 1)

\* One sample of _score_pitch in 1/300 point, for |dev| in 0.01 cent.
PitchSample(abs_dev) ==
    IF abs_dev <= PITCH_PERFECT_CENTS THEN 30000
    ELSE IF abs_dev >= PITCH_ZERO_CENTS THEN 0
    ELSE 30000 - (30000 * (abs_dev - PITCH_PERFECT_CENTS))
                   \div (PITCH_ZERO_CENTS - PITCH_PERFECT_CENTS)

ScorePitch(deviations) ==
    LET devs == Present(deviations)
    IN  MeanOf([i \in DOMAIN devs |-> PitchSample(Abs(devs[i]))])

\* One sample of _score_timing in 1/300 point, for |off| in time units.
TimingSample(abs_off) ==
    IF abs_off <= TIMING_PERFECT_S THEN 30000
    ELSE IF abs_off >= TIMING_ZERO_S THEN 0
    ELSE 30000 - (30000 * (abs_off - TIMING_PERFECT_S))
                   \div (TIMING_ZERO_S - TIMING_PERFECT_S)

ScoreTiming(offsets) ==
    MeanOf([i \in DOMAIN offsets |-> TimingSample(Abs(offsets[i]))])

\* The too-loud branch of _score_dynamics without the cut-off above
\* DYNAMICS_ZERO_HIGH: the line through (2.0, 100) and (3.0, 0) continued.
DynamicsSampleUnclamped(ratio) ==
    IF DYNAMICS_PERFECT_LOW <= ratio /\ ratio <= DYNAMICS_PERFECT_HIGH THEN 30000
    ELSE IF ratio < DYNAMICS_ZERO_LOW THEN 0
    ELSE IF ratio < DYNAMICS_PERFECT_LOW
    THEN (30000 * (ratio - DYNAMICS_ZERO_LOW))
           \div (DYNAMICS_PERFECT_LOW - DYNAMICS_ZERO_LOW)
    ELSE (3 * (DYNAMICS_ZERO_HIGH - ratio) * 10000)
           \div (DYNAMICS_ZERO_HIGH - DYNAMICS_PERFECT_HIGH)

\* One sample of _score_dynamics in 1/300 point, for a ratio in 0.0001.
DynamicsSample(ratio) ==
    IF DYNAMICS_PERFECT_LOW <= ratio /\ ratio <= DYNAMICS_PERFECT_HIGH THEN 30000
    ELSE IF ratio < DYNAMICS_ZERO_LOW \/ ratio > DYNAMICS_ZERO_HIGH THEN 0
    ELSE IF ratio < DYNAMICS_PERFECT_LOW
    THEN (30000 * (ratio - DYNAMICS_ZERO_LOW))
           \div (DYNAMICS_PERFECT_LOW - DYNAMICS_ZERO_LOW)
    ELSE (3 * (DYNAMICS_ZERO_HIGH - ratio) * 10000)
           \div (DYNAMICS_ZERO_HIGH - DYNAMICS_PERFECT_HIGH)

ScoreDynamics(ratios) ==
    LET rs == Present(ratios)
    IN  MeanOf([i \in DOMAIN rs |-> DynamicsSample(rs[i])])

\* round(score, 1) in 0.1 point.
Round1(score) == RoundDiv(score.sum, 30 * score.n)

\* round(p * WEIGHT_PITCH + t * WEIGHT_TIMING + d * WEIGHT_DYNAMICS, 1).
Overall1(p, t, d) ==
    RoundDiv(WEIGHT_PITCH * p.sum * t.n * d.n + WEIGHT_TIMING * t.sum * p.n * d.n
             + WEIGHT_DYNAMICS * d.sum * p.n * t.n,
             600 * p.n * t.n * d.n)

-----------------------------------------------------------------------------
(* scoring.py: section scores *)

\* t_start <= t < t_end for section sec_idx of num sections over duration,
\* where t_start = sec_idx * (duration / num): compared cross-multiplied.
InSection(t, sec_idx, duration, num) ==
    /\ ~(t * num < sec_idx * duration)
    /\ ~(t * num >= (sec_idx + 1) * duration)

\* _median_note over one section: None, or the note of the median voiced Hz.
MedianNote(pitch_values, pitch_times, sec_idx, duration, num) ==
    LET n == ZipLen(pitch_values, pitch_times)
        freqs == FilterIdx(SubSeq(pitch_values, 1, n),
                           [i \in 1..n |-> /\ InSection(pitch_times[i], sec_idx, duration, num)
                                           /\ IsVoiced(pitch_values[i])], 1)
    IN  IF freqs = <<>> THEN None ELSE Some(HzToNote(MedianHz(freqs)))

\* The path pairs (positions in the path) whose user time falls in a section.
SectionPairs(alignment_, user_times, sec_idx, duration, num) ==
    [k \in DOMAIN alignment_.path |->
        /\ alignment_.path[k][1] < Len(user_times)
        /\ InSection(user_times[alignment_.path[k][1] + 1], sec_idx, duration, num)]

\* One entry of sectionScores.  Times in 0.01 s, scores in 0.1 point.
SectionScore(alignment_, user, ref, sec_idx, duration, num) ==
    LET user_times == user.pitch_times
        inside == SectionPairs(alignment_, user_times, sec_idx, duration, num)
        sec_pitch_devs == FilterIdx(alignment_.pitch_deviations,
                              [k \in DOMAIN inside |->
                                 inside[k] /\ alignment_.pitch_deviations[k] # None], 1)
        sec_timing_offs == FilterIdx(alignment_.timing_offsets, inside, 1)
        sec_energy_rats == FilterIdx(alignment_.energy_ratios,
                              [k \in DOMAIN inside |->
                                 inside[k] /\ alignment_.energy_ratios[k] # None], 1)
        user_note == MedianNote(user.pitch_values, user_times, sec_idx, duration, num)
        ref_note == MedianNote(ref.pitch_values, ref.pitch_times, sec_idx, duration, num)
        has_voiced == Len(sec_pitch_devs) > 0
        p == ScorePitch(sec_pitch_devs)
        t == IF sec_timing_offs # <<>> THEN ScoreTiming(sec_timing_offs) ELSE ZeroScore
        d == ScoreDynamics(sec_energy_rats)
        both == ref_note # None /\ user_note # None
        r_oct == OctaveNum(Val(ref_note))
        u_oct == OctaveNum(Val(user_note))
    IN  [sectionIndex |-> sec_idx,
         startTime |-> RoundDiv(sec_idx * duration, num * 100),
         endTime |-> RoundDiv((sec_idx + 1) * duration, num * 100),
         overallScore |-> IF has_voiced THEN Some(Overall1(p, t, d)) ELSE None,
         pitchScore |-> IF has_voiced THEN Some(Round1(p)) ELSE None,
         timingScore |-> IF has_voiced THEN Some(Round1(t)) ELSE None,
         dynamicsScore |-> IF has_voiced THEN Some(Round1(d)) ELSE None,
         refNote |-> ref_note,
         userNote |-> user_note,
         noteMatch |-> IF both THEN Some(ref_note = user_note) ELSE None,
         pitchClassMatch |-> IF both
                             THEN Some(NoteClass(Val(ref_note)) = NoteClass(Val(user_note)))
                             ELSE None,
         octaveDiff |-> IF both /\ r_oct # None /\ u_oct # None
                        THEN Some(Val(u_oct) - Val(r_oct)) ELSE None]

\* num_sections = max(1, round(duration / SECTION_DURATION_S))
NumSections(duration) == Max2(1, RoundDiv(duration, SECTION_DURATION_S))

\* _compute_section_scores
ComputeSectionScores(alignment_, user, ref) ==
    IF user.pitch_times = <<>> THEN <<>>
    ELSE LET duration == user.pitch_times[Len(user.pitch_times)]
             num == NumSections(duration)
         IN  [s \in 1..num |-> SectionScore(alignment_, user, ref, s - 1, duration, num)]

-----------------------------------------------------------------------------
(* scoring.py: problem areas *)

\* Parameter default window_s of _identify_problem_areas, its step
\* window_s / 2, the 0.01 s slack of the loop bound, and the cap on the
\* number of areas.
PROBLEM_WINDOW_S == 20000
PROBLEM_STEP_S == 10000
PROBLEM_SLACK_S == 100
MAX_PROBLEM_AREAS == 3

\* The window starting at t_start, or None when it is no candidate: it has
\* no voiced pair or no issue.  badness is carried in 1/4000000, each of
\* its three terms rounded down.
\* The dynamics test with the band edges counted as issues.
DynamicsIssueInclusive(sd, nd) ==
    \/ sd * 10 <= DYNAMICS_PERFECT_LOW * 7 * nd
    \/ sd * 10 >= DYNAMICS_PERFECT_HIGH * 15 * nd

\* avg_ratio < DYNAMICS_PERFECT_LOW * 0.7 or avg_ratio > DYNAMICS_PERFECT_HIGH
\* * 1.5, on the sum sd of nd ratios.
DynamicsIssue(sd, nd) ==
    \/ sd * 10 < DYNAMICS_PERFECT_LOW * 7 * nd
    \/ sd * 10 > DYNAMICS_PERFECT_HIGH * 15 * nd

ProblemWindow(alignment_, user_times, ref_times, t_start) ==
    LET t_end == t_start + PROBLEM_WINDOW_S
        path == alignment_.path
        inside == [k \in DOMAIN path |->
                     /\ path[k][1] < Len(user_times)
                     /\ ~(user_times[path[k][1] + 1] < t_start)
                     /\ ~(user_times[path[k][1] + 1] >= t_end)]
        devs == FilterIdx(alignment_.pitch_deviations,
                          [k \in DOMAIN inside |->
                             inside[k] /\ alignment_.pitch_deviations[k] # None], 1)
        w_pitch == [i \in DOMAIN devs |-> Abs(Val(devs[i]))]
        offs == FilterIdx(alignment_.timing_offsets, inside, 1)
        w_timing == [i \in DOMAIN offs |-> Abs(offs[i])]
        rats == FilterIdx(alignment_.energy_ratios,
                          [k \in DOMAIN inside |->
                             inside[k] /\ alignment_.energy_ratios[k] # None], 1)
        w_dynamics == [i \in DOMAIN rats |-> Val(rats[i])]
        w_ref_times == FilterIdx([k \in DOMAIN path |->
                                    IF path[k][2] < Len(ref_times)
                                    THEN ref_times[path[k][2] + 1] ELSE 0],
                                 [k \in DOMAIN inside |->
                                    inside[k] /\ path[k][2] < Len(ref_times)], 1)
        np == Len(w_pitch)
        nt == Len(w_timing)
        nd == IF w_dynamics = <<>> THEN 1 ELSE Len(w_dynamics)
        sp == SumSeq(w_pitch)
        st == SumSeq(w_timing)
        sd == IF w_dynamics = <<>> THEN 10000 ELSE SumSeq(w_dynamics)
        pitch_issue == sp * 100 > PITCH_PERFECT_CENTS * 150 * np
        timing_issue == st > TIMING_PERFECT_S * 3 * nt
        dynamics_issue == DynamicsIssue(sd, nd)
    IN  IF np = 0 \/ ~(pitch_issue \/ timing_issue \/ dynamics_issue) THEN None
        ELSE Some(
          [startTime |-> RoundDiv(t_start, 100),
           endTime |-> RoundDiv(t_end, 100),
           issues |-> (IF pitch_issue THEN <<"pitch">> ELSE <<>>)
                      \o (IF timing_issue THEN <<"timing">> ELSE <<>>)
                      \o (IF dynamics_issue THEN <<"dynamics">> ELSE <<>>),
           avgPitchDevCents |-> RoundDiv(sp, 10 * np),
           avgTimingOffsetMs |-> RoundDiv(st, nt),
           avgEnergyRatio |-> RoundDiv(sd, 10 * nd),
           badness |-> (70 * sp) \div np + (30 * st) \div nt
                       + (60 * Abs(10000 * nd - sd)) \div nd,
           refStartTime |-> IF w_ref_times # <<>>
                            THEN Some(RoundDiv(KthSmallest(w_ref_times, 1), 100))
                            ELSE None,
           refEndTime |-> IF w_ref_times # <<>>
                          THEN Some(RoundDiv(KthSmallest(w_ref_times, Len(w_ref_times)), 100))
                          ELSE None])

\* windows: the candidate windows in the order the loop appends them.
ProblemWindows(alignment_, user_times, ref_times) ==
    LET duration == user_times[Len(user_times)]
        count == IF duration + PROBLEM_SLACK_S < PROBLEM_WINDOW_S THEN 0
                 ELSE (duration + PROBLEM_SLACK_S - PROBLEM_WINDOW_S)
                        \div PROBLEM_STEP_S + 1
        all == [k \in 1..count |->
                  ProblemWindow(alignment_, user_times, ref_times,
                                (k - 1) * PROBLEM_STEP_S)]
        cands == FilterIdx(all, [k \in 1..count |-> all[k] # None], 1)
    IN  [i \in DOMAIN cands |-> Val(cands[i])]

\* The windows left in the order of the slide.
SortByStart(ws) == ws

\* windows.sort(key=badness, reverse=True): stable, so equal badness keeps
\* the loop order.
RECURSIVE SortByBadness(_)
SortByBadness(ws) ==
    IF ws = <<>> THEN <<>>
    ELSE LET top == SetMax({ws[i].badness : i \in DOMAIN ws})
             first == SetMin({i \in DOMAIN ws : ws[i].badness = top})
         IN  <<ws[first]>> \o
             SortByBadness(FilterIdx(ws, [i \in DOMAIN ws |-> i # first], 1))

\* The windows an overlap test that compares only start times would call
\* overlapping: identical windows.
OverlapsSameStart(w, s) == w.startTime = s.startTime

\* Two windows overlap in user time.
Overlaps(w, s) == w.startTime < s.endTime /\ w.endTime > s.startTime

\* The greedy selection after the first k sorted windows.
RECURSIVE SelectScan(_, _)
SelectScan(sorted, k) ==
    IF k = 0 THEN <<>>
    ELSE LET selected == SelectScan(sorted, k - 1)
             w == sorted[k]
         IN  IF Len(selected) >= MAX_PROBLEM_AREAS THEN selected
             ELSE IF \E i \in DOMAIN selected : Overlaps(w, selected[i]) THEN selected
             ELSE Append(selected, w)

\* The entry returned for a window: the window without its badness key.
StripBadness(w) == [key \in (DOMAIN w) \ {"badness"} |-> w[key]]

\* _identify_problem_areas
IdentifyProblemAreas(alignment_, user, ref) ==
    IF user.pitch_times = <<>> THEN <<>>
    ELSE LET sorted == SortByBadness(ProblemWindows(alignment_, user.pitch_times,
                                                    ref.pitch_times))
             selected == SelectScan(sorted, Len(sorted))
         IN  [i \in DOMAIN selected |-> StripBadness(selected[i])]

-----------------------------------------------------------------------------
(* scoring.py: score_recording *)

\* ref_notes and user_notes as score_recording extracts them: the reference
\* up to max_ref_t = user_dur * 1.2 + 5.0, the user whole.
RefNotesOf(user, ref) ==
    ExtractNotes(ref.pitch_values, ref.pitch_times, ref.onset_times,
                 ref.rms_values, ref.rms_times, Some(MaxRefDur10(user.duration_s)))

UserNotesOf(user) ==
    ExtractNotes(user.pitch_values, user.pitch_times, user.onset_times,
                 user.rms_values, user.rms_times, None)

\* The dict score_recording returns.
ScoreRecording(user, ref, alignment_) ==
    LET pitch_score == ScorePitch(alignment_.pitch_deviations)
        timing_score == ScoreTiming(alignment_.timing_offsets)
        dynamics_score == ScoreDynamics(alignment_.energy_ratios)
    IN  [overallScore |-> Overall1(pitch_score, timing_score, dynamics_score),
         pitchScore |-> Round1(pitch_score),
         timingScore |-> Round1(timing_score),
         dynamicsScore |-> Round1(dynamics_score),
         sectionScores |-> ComputeSectionScores(alignment_, user, ref),
         problemAreas |-> Take(IdentifyProblemAreas(alignment_, user, ref),
                               MAX_PROBLEM_AREAS),
         noteComparison |-> AlignNotes(RefNotesOf(user, ref), UserNotesOf(user))]

-----------------------------------------------------------------------------
(* The state machine: one call of run_scoring_and_coaching, which calls
   align_features and then score_recording on a pair of feature records. *)

\* A feature record on a regular grid: frame i at i * step, the rms grid
\* equal to the pitch grid, the duration one step past the last frame.
GridFeature(pitch, step, rms, onsets) ==
    [pitch_values |-> pitch,
     pitch_times |-> [i \in DOMAIN pitch |-> (i - 1) * step],
     onset_times |-> onsets,
     rms_values |-> rms,
     rms_times |-> [i \in DOMAIN rms |-> (i - 1) * step],
     duration_s |-> Len(pitch) * step]

\* Bounds of the inputs.
MaxFrames == 3

\* Frequencies of the bounded inputs (0 is an unvoiced frame), in 0.05 Hz:
\* G#4, A4 and silence.
UserPitchSet == {0, 8304, 8800}
RefPitchSet == {0, 8800}

\* The grids of the bounded inputs: user frame step, reference frame step,
\* user rms level, reference rms level.  20 ms frames, a reference on a
\* slower clock, one-second frames, and a silent reference.
Grids ==
    {<<200, 200, 3000, 2000>>, <<200, 7001, 3000, 2000>>,
     <<10000, 10000, 3000, 2000>>, <<10000, 10000, 3000, 0>>}

SeqsUpTo(S, n) == UNION {[1..k -> S] : k \in 0..n}

Level(p, l) == [i \in DOMAIN p |-> l]

\* The scoring functions called on their own, with no job behind them.
NoJob ==
    /\ req = None
    /\ env = None
    /\ job = None
    /\ quota = 0
    /\ sessions = <<>>

Blank ==
    /\ NoJob
    /\ onset_time = None
    /\ alignment = None
    /\ report = None
    /\ ref_notes = None
    /\ user_notes = None
    /\ pc = "start"
    /\ error = "none"

\* A record whose pitch tracker returned no frame at all while its rms
\* envelope has one.
NoPitch(l) ==
    [GridFeature(<<>>, 0, <<>>, <<>>) EXCEPT !.rms_values = <<l>>, !.rms_times = <<0>>]

Init ==
    /\ \E g \in Grids :
         /\ \/ \E p \in SeqsUpTo(UserPitchSet, MaxFrames) :
                   user_features = GridFeature(p, g[1], Level(p, g[3]), <<>>)
            \/ user_features = NoPitch(g[3])
         /\ \/ \E p \in SeqsUpTo(RefPitchSet, MaxFrames) :
                   ref_features = GridFeature(p, g[2], Level(p, g[4]), <<>>)
            \/ ref_features = NoPitch(g[4])
    /\ Blank

\* align_features(user_features, ref_features): it raises, or returns the
\* alignment built from the path DTW found.
AlignVia(any_path) ==
    /\ pc = "start"
    /\ IF PrepRaises(user_features, ref_features)
       THEN /\ pc' = "raised"
            /\ error' = "ValueError"
            /\ alignment' = alignment
       ELSE LET x == UserSeq(user_features, ref_features)
                y == RefSeq(user_features, ref_features)
            IN  IF FastDtwRaises(x, y)
                THEN /\ pc' = "raised"
                     /\ error' = "IndexError"
                     /\ alignment' = alignment
                ELSE /\ \E p \in (IF x = <<>> THEN {<<>>}
                                ELSE IF any_path THEN AnyWarpPaths(x, y)
                                ELSE FastDtwPaths(x, y)) :
                          alignment' = AlignFrom(user_features, ref_features, p,
                                                 PathCost(p, x, y))
                     /\ pc' = "aligned"
                     /\ error' = error
    /\ UNCHANGED <<onset_time, user_features, ref_features, report, ref_notes,
                   user_notes, service>>

Align == AlignVia(FALSE)

\* score_recording(user_features, ref_features, alignment)
Score ==
    /\ pc = "aligned"
    /\ report' = ScoreRecording(user_features, ref_features, alignment)
    /\ ref_notes' = RefNotesOf(user_features, ref_features)
    /\ user_notes' = UserNotesOf(user_features)
    /\ pc' = "scored"
    /\ UNCHANGED <<onset_time, user_features, ref_features, alignment, error, service>>

Next == Align \/ Score

Spec == Init /\ [][Next]_vars

\* The same request with DTW returning any warping path, over voiced user
\* streams of one frame or more on 20 ms grids.
NonEmptySeqs(S, n) == SeqsUpTo(S, n) \ {<<>>}

InitPaths ==
    /\ \E p \in NonEmptySeqs(UserPitchSet \ {0}, MaxFrames) :
          user_features = GridFeature(p, 200, Level(p, 3000), <<>>)
    /\ \E p \in NonEmptySeqs(RefPitchSet, MaxFrames) :
          ref_features = GridFeature(p, 200, Level(p, 2000), <<>>)
    /\ Blank

AlignAnyPath == AlignVia(TRUE)

NextPaths == AlignAnyPath \/ Score

SpecPaths == InitPaths /\ [][NextPaths]_vars

\* The same request over tones half an octave and an octave apart: G3
\* (197.0 Hz) and C#4 (278.6 Hz); A3 (220 Hz) and A4 (440 Hz).
MaxOctaveFrames == 2

OctavePitchSet == {3940, 5572, 4400, 8800}

InitOctave ==
    /\ \E p \in NonEmptySeqs(OctavePitchSet, MaxOctaveFrames) :
          user_features = GridFeature(p, 200, Level(p, 3000), <<>>)
    /\ \E p \in NonEmptySeqs(OctavePitchSet, MaxOctaveFrames) :
          ref_features = GridFeature(p, 200, Level(p, 2000), <<>>)
    /\ Blank

SpecOctave == InitOctave /\ [][Next]_vars

\* The same request on one record scored against itself: 20 ms or
\* one-second frames; a level, a silent or a rising rms envelope.
SelfGrids == {200, 10000}

SelfEnvelopes(p) ==
    {Level(p, 3000), Level(p, 0), [i \in DOMAIN p |-> 1000 * i]}

InitSelf ==
    /\ \E p \in SeqsUpTo(UserPitchSet, MaxFrames), s \in SelfGrids :
          \E e \in SelfEnvelopes(p) :
             user_features = GridFeature(p, s, e, <<>>)
    /\ ref_features = user_features
    /\ Blank

SpecSelf == InitSelf /\ [][Next]_vars

\* score_recording applied to an alignment of any content: n pairs along
\* the diagonal of an n-frame A4 record, with deviations, offsets and
\* ratios drawn freely.
PairedAlignment(devs, offs, rats) ==
    [path |-> [k \in DOMAIN devs |-> <<k - 1, k - 1>>],
     dtw_distance |-> 0,
     pitch_deviations |-> devs,
     timing_offsets |-> offs,
     energy_ratios |-> rats,
     path_sanity |-> [is_sane |-> TRUE, drift_regions |-> <<>>, avg_slope |-> 1000]]

ToneFeature(n, step) ==
    GridFeature([i \in 1..n |-> 8800], step, [i \in 1..n |-> 3000], <<>>)

AlignedWith(n, step, devs, offs, rats) ==
    /\ user_features = ToneFeature(n, step)
    /\ ref_features = user_features
    /\ alignment = PairedAlignment(devs, offs, rats)
    /\ report = None
    /\ ref_notes = None
    /\ user_notes = None
    /\ pc = "aligned"
    /\ error = "none"
    /\ NoJob
    /\ onset_time = None

MaxPairs == 2

\* Deviations in 0.01 cent: unvoiced, exact, 250 cents flat.  Offsets in
\* time units: on time, 1.25 s early, 3 s late.  Ratios in 0.0001: no
\* reference energy, 0.35, 1.0, 4.5.
DeviationSet == {None, Some(0), Some(-25000)}
OffsetSet == {0, -12500, 30000}
RatioSet == {None, Some(3500), Some(10000), Some(45000)}

InitScore ==
    \E n \in 0..MaxPairs :
        \E devs \in [1..n -> DeviationSet], offs \in [1..n -> OffsetSet],
           rats \in [1..n -> RatioSet] :
            AlignedWith(n, 10000, devs, offs, rats)

NextScore == Score

SpecScore == InitScore /\ [][NextScore]_vars

\* score_recording applied to alignments whose pitch deviations vary from
\* frame to frame, over records long enough for several problem windows:
\* one-second and two-second frames.
MaxProblemFrames == 6

ProblemDeviationSet == {Some(0), Some(20000), Some(30000)}

InitProblems ==
    \E n \in 1..MaxProblemFrames, step \in {10000, 20000} :
        \E devs \in [1..n -> ProblemDeviationSet] :
            AlignedWith(n, step, devs, [k \in 1..n |-> 0], [k \in 1..n |-> Some(10000)])

SpecProblems == InitProblems /\ [][NextScore]_vars

\* The two _extract_notes calls of score_recording on their own: the
\* reference up to max_ref_t, the user stream whole.  Reference frames are
\* 60 ms apart, half of min_duration_s, or two seconds apart, so that a
\* short user stream puts max_ref_t before the last frames; the reference
\* has no split signal, an onset at its third frame, or an energy dip
\* there.  The user stream is one 20 ms frame, or the reference itself.
MaxNoteFrames == 5

NoteSteps == {600, 20000}

NoteSignals == {"none", "onset", "dip"}

NoteFeature(p, step, signal) ==
    GridFeature(p, step,
                [i \in DOMAIN p |-> IF signal = "dip" /\ i = 3 THEN 300 ELSE 3000],
                IF signal = "onset" THEN <<2 * step>> ELSE <<>>)

InitNotes ==
    /\ \E p \in SeqsUpTo(UserPitchSet, MaxNoteFrames), step \in NoteSteps,
          signal \in NoteSignals :
          ref_features = NoteFeature(p, step, signal)
    /\ user_features \in {ToneFeature(1, 200), ref_features}
    /\ Blank

ExtractNotesStep ==
    /\ pc = "start"
    /\ ref_notes' = RefNotesOf(user_features, ref_features)
    /\ user_notes' = UserNotesOf(user_features)
    /\ pc' = "extracted"
    /\ UNCHANGED <<onset_time, user_features, ref_features, alignment, report, error, service>>

NextNotes == ExtractNotesStep

SpecNotes == InitNotes /\ [][NextNotes]_vars

\* The same request on a user record of invalid shape, nothing in
\* run_scoring_and_coaching, align_features or score_recording checking the
\* shape: pitch_times out of order, or an rms array one element short.
ShapeDefects == {"times_swapped", "rms_values_short", "rms_times_short"}

Swapped(ts) == [i \in DOMAIN ts |-> IF i = 1 THEN ts[2] ELSE IF i = 2 THEN ts[1] ELSE ts[i]]

Defective(f, defect) ==
    CASE defect = "times_swapped" -> [f EXCEPT !.pitch_times = Swapped(f.pitch_times)]
      [] defect = "rms_values_short" -> [f EXCEPT !.rms_values = Tail(f.rms_values)]
      [] defect = "rms_times_short" -> [f EXCEPT !.rms_times = Tail(f.rms_times)]

InitShape ==
    /\ \E p \in SeqsUpTo(UserPitchSet, MaxFrames), step \in SelfGrids,
          defect \in ShapeDefects :
          /\ Len(p) >= 2
          /\ user_features = Defective(GridFeature(p, step, Level(p, 3000), <<>>), defect)
          /\ \E n \in 1..MaxFrames : ref_features = ToneFeature(n, step)
    /\ Blank

SpecShape == InitShape /\ [][Next]_vars

-----------------------------------------------------------------------------
(* Properties *)

Aligned == pc \in {"aligned", "scored"}

AllUnvoiced(pitch) == \A i \in DOMAIN pitch : ~IsVoiced(pitch[i])

\* C3: after deduplication the path returned by align_features is strictly
\* increasing in user_idx.
C3_DedupStrictlyIncreasing ==
    Aligned =>
        \A k \in 1..(Len(alignment.path) - 1) :
            alignment.path[k][1] < alignment.path[k + 1][1]

\* A reference longer than the user stream forces DTW to pair one user frame
\* with several reference frames; the deduplicated path keeps one pair each.
C3_Witness ==
    /\ pc = "aligned"
    /\ Len(user_features.pitch_values) = 2
    /\ Len(ref_features.pitch_values) = 3
    /\ Len(alignment.path) = 2

\* C8: the median of the normalised timing offsets of a non-empty
\* deduplicated path is 0.
C8_MedianOffsetZero ==
    (Aligned /\ alignment.path # <<>>) => Median2(alignment.timing_offsets) = 0

\* An even-length path whose baseline falls between two time units: the raw
\* offsets 0 and -0.6801 s leave +-0.34005 s, both rounded to even.
C8_Witness ==
    /\ pc = "aligned"
    /\ alignment.timing_offsets = <<3400, -3400>>

Empty(f) == Len(f.pitch_values) = 0

UnvoicedUser == ~Empty(user_features) /\ AllUnvoiced(user_features.pitch_values)

\* C5 as stated: a fully unvoiced user stream scores overallScore = 50 with
\* empty sectionScores, problemAreas and noteComparison, whatever the
\* reference.
C5_UnvoicedIsFiftyAndEmpty ==
    (pc = "scored" /\ AllUnvoiced(user_features.pitch_values)) =>
        /\ report.overallScore = 500
        /\ report.sectionScores = <<>>
        /\ report.problemAreas = <<>>
        /\ report.noteComparison = <<>>

\* What the code does for C5's input: against a non-empty reference a
\* non-empty, fully unvoiced user stream is aligned and scored without an
\* error; pitchScore is 50 and problemAreas is empty, but timing and
\* dynamics are scored from the aligned pairs, so overallScore is
\* 35 + 0.15 * timingScore + 0.15 * dynamicsScore, between 35 and 65;
\* sectionScores has one entry per section of the user timeline, each with
\* null scores, and noteComparison has one unmatched entry per reference
\* note.
C5_UnvoicedScores ==
    (UnvoicedUser /\ ~Empty(ref_features)) =>
        /\ pc # "raised"
        /\ pc = "scored" =>
             /\ report.pitchScore = 500
             /\ report.problemAreas = <<>>
             /\ report.overallScore >= 350 /\ report.overallScore <= 650
             /\ Len(report.sectionScores)
                    = NumSections(user_features.pitch_times[Len(user_features.pitch_times)])
             /\ \A k \in DOMAIN report.sectionScores :
                    /\ report.sectionScores[k].overallScore = None
                    /\ report.sectionScores[k].pitchScore = None
                    /\ report.sectionScores[k].userNote = None
             /\ Len(report.noteComparison) = Len(ref_notes)
             /\ \A k \in DOMAIN report.noteComparison :
                    /\ report.noteComparison[k].userNote = None
                    /\ ~report.noteComparison[k].noteMatch

\* A silent user scored against a sung reference: overallScore 65, one
\* section, one reference note left unmatched.
C5_SilentUserScored ==
    /\ pc = "scored"
    /\ UnvoicedUser
    /\ report.overallScore = 650
    /\ Len(report.sectionScores) = 1
    /\ Len(report.noteComparison) = 1

\* C6 as stated: align_features never raises on an empty user or reference
\* stream; it returns an empty path and dtw_distance 0.
C6_EmptyNeverRaises ==
    (Empty(user_features) \/ Empty(ref_features)) =>
        \/ pc = "start"
        \/ /\ Aligned
           /\ alignment.path = <<>>
           /\ alignment.dtw_distance = 0

\* The one empty case align_features handles: both pitch streams empty.
C6_BothEmpty ==
    /\ pc = "aligned"
    /\ Empty(user_features) /\ Empty(ref_features)
    /\ alignment.path = <<>>
    /\ alignment.dtw_distance = 0

\* An empty user stream against a sung reference: np.interp raises when the
\* rms envelope is empty too, and the path walk of fastdtw when it is not.
C6_InterpRaised ==
    pc = "raised" /\ error = "ValueError" /\ Empty(user_features) /\ ~Empty(ref_features)

C6_DtwRaised ==
    pc = "raised" /\ error = "IndexError" /\ Empty(user_features) /\ ~Empty(ref_features)

VoicedDeviations == {Val(alignment.pitch_deviations[k]) :
                        k \in {i \in DOMAIN alignment.pitch_deviations :
                                  alignment.pitch_deviations[i] # None}}

\* C2 as stated: every voiced pitch deviation returned by align_features
\* lies in the half-open interval (-600, +600] cents.
C2_FoldedHalfOpenAbove ==
    Aligned => \A v \in VoicedDeviations : -60000 < v /\ v <= 60000

\* C2, amended: the fold ((c + 600) mod 1200) - 600 maps a raw value into
\* [-600, +600), a raw 600 or -600 going to -600; rounded to two decimals,
\* every voiced pitch deviation returned by align_features lies in the
\* closed interval [-600, +600].
C2_FoldedClosed ==
    Aligned =>
        /\ \A v \in VoicedDeviations : -60000 <= v /\ v <= 60000
        /\ \A c \in {-600000, 600000} : FoldCents(c) = -600000
        /\ \A u, r \in OctavePitchSet :
              LET c == FoldCents(CentsOfHz(u) - CentsOfHz(r))
              IN  -600000 <= c /\ c < 600000

\* G3 against C#4 and C#4 against G3 in one alignment: 599.99955 cents
\* either way, returned as -600.00 and +600.00.
C2_Witness ==
    /\ pc = "aligned"
    /\ alignment.pitch_deviations = <<Some(-60000), Some(60000)>>

Diagonal(path, n) == path = [k \in 1..n |-> <<k - 1, k - 1>>]

SelfScored == pc = "scored" /\ user_features = ref_features

C4_OffDiagonal ==
    /\ SelfScored
    /\ ~AllUnvoiced(user_features.pitch_values)
    /\ report.timingScore < 1000

InRange(score) == 0 <= score /\ score <= 1000

\* C1: for every alignment, score_recording returns pitchScore, timingScore,
\* dynamicsScore and overallScore in [0, 100].
C1_ScoresInRange ==
    pc = "scored" =>
        /\ InRange(report.pitchScore)
        /\ InRange(report.timingScore)
        /\ InRange(report.dynamicsScore)
        /\ InRange(report.overallScore)

\* A pair sung on pitch, three seconds late and 4.5 times too loud: the
\* scores sit on both ends of the range.
C1_Witness ==
    /\ pc = "scored"
    /\ alignment.energy_ratios = <<Some(45000)>>
    /\ report.pitchScore = 1000
    /\ report.timingScore = 0
    /\ report.dynamicsScore = 0
    /\ report.overallScore = 700

NonOverlapping(areas) ==
    \A i, j \in DOMAIN areas :
        i # j => \/ areas[i].endTime <= areas[j].startTime
                 \/ areas[j].endTime <= areas[i].startTime

\* C9: the problem areas _identify_problem_areas returns are pairwise
\* non-overlapping in user time, and there are at most three of them.
C9_ProblemAreasDisjoint ==
    pc = "scored" =>
        LET areas == IdentifyProblemAreas(alignment, user_features, ref_features)
        IN  /\ Len(areas) <= 3
            /\ NonOverlapping(areas)
            /\ report.problemAreas = areas

\* Ten seconds sung 200 cents and more off: nine candidate windows, every
\* neighbour overlapping, of which three disjoint ones are returned.
C9_Witness ==
    /\ pc = "scored"
    /\ Len(ProblemWindows(alignment, user_features.pitch_times,
                          ref_features.pitch_times)) = 9
    /\ Len(report.problemAreas) = 3

LongEnough(notes) ==
    \A k \in DOMAIN notes : notes[k].endTime - notes[k].startTime >= 120

\* C10: every note _extract_notes emits, whichever event ended it, has
\* endTime - startTime >= 0.12 s.
C10_NotesLongEnough ==
    pc = "extracted" => LongEnough(ref_notes) /\ LongEnough(user_notes)

\* 60 ms frames: a one-frame candidate ended by an unvoiced frame after
\* 0.06 s is dropped, and the three frames after it, closed at the end of
\* the stream after exactly 0.12 s, are emitted.
C10_Witness ==
    /\ pc = "extracted"
    /\ ref_features.pitch_values = <<8800, 0, 8800, 8800, 8800>>
    /\ ref_features.pitch_times[2] = 600
    /\ Len(ref_notes) = 1
    /\ ref_notes[1].startTime = 120
    /\ ref_notes[1].endTime = 240

\* The other endings of a note: the max_time_s break, after which the open
\* note is closed at the last frame of the stream; an onset split; an
\* energy-dip split; a pitch jump.
C10_CutoffReached ==
    /\ pc = "extracted"
    /\ ref_features.pitch_values = <<8800, 8800, 8800, 8800, 8800>>
    /\ ref_features.pitch_times[2] = 20000
    /\ user_features = ToneFeature(1, 200)
    /\ Len(ref_notes) = 1
    /\ ref_notes[1].endTime = 8000

C10_OnsetSplit ==
    /\ pc = "extracted"
    /\ ref_features.pitch_values = <<8800, 8800, 8800, 8800, 8800>>
    /\ ref_features.onset_times = <<1200>>
    /\ Len(ref_notes) = 2
    /\ ref_notes[1].endTime = 120

C10_DipSplit ==
    /\ pc = "extracted"
    /\ ref_features.pitch_values = <<8800, 8800, 8800, 8800, 8800>>
    /\ ref_features.rms_values[3] = 300
    /\ Len(ref_notes) = 2

C10_JumpSplit ==
    /\ pc = "extracted"
    /\ ref_features.pitch_values = <<8800, 8800, 8800, 8304, 8304>>
    /\ Len(ref_notes) = 2

Decreasing(ts) == \E i \in 1..(Len(ts) - 1) : ts[i + 1] < ts[i]

InvalidShape(f) ==
    \/ Len(f.pitch_values) # Len(f.pitch_times)
    \/ Len(f.rms_values) # Len(f.rms_times)
    \/ Decreasing(f.pitch_times)
    \/ Decreasing(f.rms_times)

\* C7 as stated: input of invalid shape is rejected at entry with an
\* InvalidFeatures error, and no alignment or report is produced from it.
C7_InvalidShapeRejected ==
    (InvalidShape(user_features) \/ InvalidShape(ref_features)) =>
        /\ alignment = None
        /\ report = None
        /\ pc = "start" \/ (pc = "raised" /\ error = "InvalidFeatures")

\* What the code does with it: a report from pitch_times out of order, and
\* a ValueError out of np.interp for rms arrays of different length.
C7_ReportFromInvalid ==
    pc = "scored" /\ InvalidShape(user_features) /\ report # None

C7_InterpRaised ==
    pc = "raised" /\ InvalidShape(user_features) /\ error = "ValueError"

-----------------------------------------------------------------------------
(* Note comparison *)

\* score_recording on two records of their own, one-second or two-second
\* frames, the reference voiced throughout; the alignment handed to it
\* pairs the frames the two records share, one to one.
MaxCompareFrames == 4

FramewiseAlignment(user, ref) ==
    LET n == Min2(Len(user.pitch_values), Len(ref.pitch_values))
    IN  PairedAlignment([k \in 1..n |-> PitchDeviation(user.pitch_values[k],
                                                       ref.pitch_values[k])],
                        [k \in 1..n |-> 0],
                        [k \in 1..n |-> Some(10000)])

InitCompare ==
    /\ \E step \in {10000, 20000} :
          /\ \E p \in SeqsUpTo(UserPitchSet, MaxCompareFrames) :
                user_features = GridFeature(p, step, Level(p, 3000), <<>>)
          /\ \E p \in NonEmptySeqs({8304, 8800}, MaxCompareFrames) :
                ref_features = GridFeature(p, step, Level(p, 2000), <<>>)
    /\ alignment = FramewiseAlignment(user_features, ref_features)
    /\ report = None
    /\ ref_notes = None
    /\ user_notes = None
    /\ pc = "aligned"
    /\ error = "none"
    /\ NoJob
    /\ onset_time = None

SpecCompare == InitCompare /\ [][NextScore]_vars

Matched(pair) == pair.userNote # None

\* C11: noteComparison holds exactly one entry per extracted reference
\* note, in reference order with noteIndex 0..n-1, however many user notes
\* there are and however many of them are matched.
C11_OneEntryPerRefNote ==
    pc = "scored" =>
        /\ Len(report.noteComparison) = Len(ref_notes)
        /\ \A k \in DOMAIN report.noteComparison :
              /\ report.noteComparison[k].noteIndex = k - 1
              /\ report.noteComparison[k].refNote = ref_notes[k].note
              /\ report.noteComparison[k].refStartTime = ref_notes[k].startTime
              /\ report.noteComparison[k].refEndTime = ref_notes[k].endTime

\* Three reference notes against a single user note: the first reference
\* note is left unmatched, the second takes the user note, the third finds
\* none left.
C11_Witness ==
    /\ pc = "scored"
    /\ Len(ref_notes) = 3
    /\ Len(user_notes) = 1
    /\ ~Matched(report.noteComparison[1])
    /\ Matched(report.noteComparison[2])
    /\ ~Matched(report.noteComparison[3])

-----------------------------------------------------------------------------
(* Unvoiced user *)

\* The request on one-second frames with the user six times louder than
\* the reference, so that every window of a record of three frames or more
\* has an energy ratio outside the band that raises a dynamics issue.
InitLoud ==
    /\ \E p \in SeqsUpTo(UserPitchSet, MaxFrames) :
          user_features = GridFeature(p, 10000, Level(p, 3000), <<>>)
    /\ \E p \in NonEmptySeqs(RefPitchSet, MaxFrames) :
          ref_features = GridFeature(p, 10000, Level(p, 500), <<>>)
    /\ Blank

SpecLoud == InitLoud /\ [][Next]_vars

\* C12: when every user frame is unvoiced, pitchScore is exactly 50 and no
\* problem area is emitted, whatever the timing offsets and energy ratios
\* of the windows.
C12_UnvoicedNoProblemAreas ==
    (pc = "scored" /\ AllUnvoiced(user_features.pitch_values)) =>
        /\ \A k \in DOMAIN alignment.pitch_deviations :
              alignment.pitch_deviations[k] = None
        /\ report.pitchScore = 500
        /\ report.problemAreas = <<>>

\* Three unvoiced user frames at six times the reference energy: the
\* window [0 s, 2 s) has an average energy ratio of 6, above 3.0, and is
\* no problem area.
C12_Witness ==
    /\ pc = "scored"
    /\ user_features.pitch_values = <<0, 0, 0>>
    /\ \A k \in DOMAIN alignment.energy_ratios :
          alignment.energy_ratios[k] = Some(60000)
    /\ Len(alignment.energy_ratios) = 3
    /\ report.pitchScore = 500
    /\ report.problemAreas = <<>>

\* The same record sung on pitch: the window is a problem area for its
\* dynamics alone.
C12_VoicedCounterpart ==
    /\ pc = "scored"
    /\ user_features.pitch_values = <<8800, 8800, 8800>>
    /\ report.pitchScore = 1000
    /\ Len(report.problemAreas) = 1
    /\ report.problemAreas[1].issues = <<"dynamics">>

-----------------------------------------------------------------------------
(* The 100-cent boundary *)

\* The request on one-second frames with each record on a single tone.
\* 450.7 Hz and 477.5 Hz are 99.99994 cents apart: the deviation of a pair
\* of them is rounded to 100.00, and their distance is 100.000 at the
\* resolution of CentsOfHz.  Against them G3 deviates by 232.77 cents and
\* C#4 by 367.23; C#4 against A4 deviates by 408.83.
MaxSemitoneFrames == 3

InitSemitone ==
    /\ \E f \in {9014, 9550, 3940, 5572} :
          \E p \in SeqsUpTo({0, f}, MaxSemitoneFrames) :
             user_features = GridFeature(p, 10000, Level(p, 3000), <<>>)
    /\ \E f \in {9014, 9550, 8800} :
          \E p \in NonEmptySeqs({0, f}, MaxSemitoneFrames) :
             ref_features = GridFeature(p, 10000, Level(p, 2000), <<>>)
    /\ Blank

SpecSemitone == InitSemitone /\ [][Next]_vars

\* The score of _score_pitch for one deviation, in 1/300 point: 100 up to
\* 100 cents, 0 from 400 cents, the straight line between the two.
PitchLine(dev) == Max2(0, Min2(30000, 40000 - Abs(dev)))

\* The user note of a matched pair.
UserNoteOf(pair) ==
    CHOOSE u \in {user_notes[j] : j \in DOMAIN user_notes} :
        u.startTime = Val(pair.userStartTime)

\* C13: a deviation of exactly 100 cents, of either sign, scores 100 in
\* _score_pitch, a deviation of 400 cents or more scores 0, the score is
\* linear in between; and a matched note pair gets noteMatch = true when
\* its Hz distance is 100 cents or less, exactly 100 cents included.
C13_HundredCentsInclusive ==
    pc = "scored" =>
        LET devs == Present(alignment.pitch_deviations)
            lines == [i \in DOMAIN devs |-> PitchLine(devs[i])]
        IN  /\ devs # <<>> =>
                  report.pitchScore = RoundDiv(SumSeq(lines), 30 * Len(lines))
            /\ (devs # <<>> /\ \A i \in DOMAIN devs : Abs(devs[i]) = 10000) =>
                  report.pitchScore = 1000
            /\ (devs # <<>> /\ \A i \in DOMAIN devs : Abs(devs[i]) >= 40000) =>
                  report.pitchScore = 0
            /\ \A k \in DOMAIN report.noteComparison :
                  LET pair == report.noteComparison[k]
                  IN  Matched(pair) =>
                        pair.noteMatch =
                           (CentsBetween(ref_notes[k].hz, UserNoteOf(pair).hz) <= 100000)

\* 477.5 Hz sung against 450.7 Hz: every deviation +100.00 cents,
\* pitchScore 100, and the note pair, 100.0 cents off, is a note match.
C13_Witness ==
    /\ pc = "scored"
    /\ alignment.pitch_deviations = <<Some(10000), Some(10000), Some(10000)>>
    /\ report.pitchScore = 1000
    /\ Len(report.noteComparison) = 1
    /\ report.noteComparison[1].noteMatch
    /\ report.noteComparison[1].centsOff = Some(1000)
    /\ CentsBetween(ref_notes[1].hz, user_notes[1].hz) = 100000

\* The other sign, and the rest of the line: -100.00 cents scores 100,
\* 232.77 cents 55.7, 408.83 cents 0.
C13_FlatWitness ==
    /\ pc = "scored"
    /\ alignment.pitch_deviations = <<Some(-10000), Some(-10000)>>
    /\ report.pitchScore = 1000
    /\ report.noteComparison[1].noteMatch

C13_Interpolated ==
    /\ pc = "scored"
    /\ alignment.pitch_deviations = <<Some(-23277)>>
    /\ report.pitchScore = 557

C13_ZeroScore ==
    /\ pc = "scored"
    /\ alignment.pitch_deviations = <<Some(40883)>>
    /\ report.pitchScore = 0

\* C14: in every matched pair of _align_notes a note match is a pitch
\* class match, even when the two note names differ; every unmatched pair
\* has noteMatch false and userNote, pitchClassMatch, octaveDiff, centsOff
\* and timingOffsetMs null.
C14_NoteMatchImpliesClassMatch ==
    pc = "scored" =>
        \A k \in DOMAIN report.noteComparison :
            LET pair == report.noteComparison[k]
            IN  /\ (Matched(pair) /\ pair.noteMatch) =>
                      pair.pitchClassMatch = Some(TRUE)
                /\ ~Matched(pair) =>
                      /\ pair.noteMatch = FALSE
                      /\ pair.userNote = None
                      /\ pair.pitchClassMatch = None
                      /\ pair.octaveDiff = None
                      /\ pair.centsOff = None
                      /\ pair.timingOffsetMs = None

\* La4 (450.7 Hz) against La#4 (477.5 Hz): a note match between two
\* different names, and so a pitch class match.
C14_Witness ==
    /\ pc = "scored"
    /\ Len(report.noteComparison) = 1
    /\ Matched(report.noteComparison[1])
    /\ report.noteComparison[1].refNote = <<"L", "a", "4">>
    /\ report.noteComparison[1].userNote = Some(<<"L", "a", "#", "4">>)
    /\ report.noteComparison[1].noteMatch
    /\ report.noteComparison[1].pitchClassMatch = Some(TRUE)

\* A reference note against a user stream without notes.
C14_Unmatched ==
    /\ pc = "scored"
    /\ user_notes = <<>>
    /\ Len(report.noteComparison) = 1
    /\ ~Matched(report.noteComparison[1])
    /\ report.noteComparison[1].noteMatch = FALSE

\* Two names, no note match: Sol3 against La4, no pitch class match.
C14_ClassMismatch ==
    /\ pc = "scored"
    /\ Len(report.noteComparison) = 1
    /\ Matched(report.noteComparison[1])
    /\ ~report.noteComparison[1].noteMatch
    /\ report.noteComparison[1].pitchClassMatch = Some(FALSE)

-----------------------------------------------------------------------------
(* Repeated notes *)

\* The two _extract_notes calls on a record of one A4 tone, voiced
\* throughout on 100 ms frames, scored against itself: up to two onsets,
\* each on a frame or 30 ms or 50 ms after it, and up to two frames where
\* the rms falls to a tenth of its level.
MaxRepeatFrames == 12

InitRepeat ==
    /\ \E n \in 1..MaxRepeatFrames, jitter \in {0, 300, 500} :
          \E onsets \in SUBSET (1..(n - 1)), dips \in SUBSET (2..(n - 1)) :
             /\ Cardinality(onsets) <= 2
             /\ Cardinality(dips) <= 2
             /\ onsets = {} => jitter = 0
             /\ LET nth(j) == CHOOSE f \in onsets :
                                 Cardinality({g \in onsets : g < f}) = j - 1
                IN  ref_features =
                       GridFeature([i \in 1..n |-> 8800], 1000,
                                   [i \in 1..n |-> IF i \in dips THEN 300 ELSE 3000],
                                   [j \in 1..Cardinality(onsets) |->
                                      nth(j) * 1000 + jitter])
    /\ user_features = ref_features
    /\ Blank

SpecRepeat == InitRepeat /\ [][NextNotes]_vars

\* The times (ms) of the frames of a record that carry an onset or an
\* energy dip, and the candidate starts its notes show: 0 and every
\* endTime.
SignalTimes(f) ==
    {f.pitch_times[k + 1] \div 10 :
        k \in OnsetFrames(f.onset_times, f.pitch_times)
              \cup EnergyDipFrames(f.rms_values, f.rms_times, f.pitch_times)}

Boundaries(notes) == {0} \cup {notes[i].endTime : i \in DOMAIN notes}

LastTime(f) == f.pitch_times[Len(f.pitch_times)] \div 10

\* C15: on a constant-pitch, continuously voiced reference an onset or an
\* energy dip at a frame splits the current note whenever the candidate
\* already lasts 0.12 s, and does not split it when the candidate is
\* shorter; three 0.4 s notes separated by onsets and rms dips come out as
\* three notes.
C15_SignalsSplitLongCandidates ==
    pc = "extracted" =>
        LET bounds == Boundaries(ref_notes)
            signals == SignalTimes(ref_features) \ {0}
            before(t) == SetMax({b \in bounds : b < t})
        IN  /\ ref_notes # <<>> => ref_notes[1].startTime = 0
            /\ \A i \in 1..(Len(ref_notes) - 1) :
                  ref_notes[i].endTime = ref_notes[i + 1].startTime
            /\ \A b \in bounds \ {0, LastTime(ref_features)} : b \in signals
            /\ \A t \in signals : t \in bounds \/ t - before(t) < 120
            /\ \A t \in signals \cap bounds : t - before(t) >= 120
            /\ (Len(ref_features.pitch_values) = 12
                /\ SignalTimes(ref_features) = {400, 800}) =>
                  /\ Len(ref_notes) = 3
                  /\ ref_notes[2].startTime = 400
                  /\ ref_notes[3].startTime = 800

\* Do4 Do4 Do4 in the model's tone: onsets detected 30 ms after the frames
\* at 0.4 s and 0.8 s and rms dips at the same two frames; three notes.
C15_Witness ==
    /\ pc = "extracted"
    /\ Len(ref_features.pitch_values) = 12
    /\ ref_features.onset_times = <<4300, 8300>>
    /\ ref_features.rms_values[5] = 300
    /\ ref_features.rms_values[9] = 300
    /\ Len(ref_notes) = 3
    /\ ref_notes[1].endTime = 400
    /\ ref_notes[2].endTime = 800
    /\ ref_notes[3].endTime = 1100

\* An onset at 0.4 s and a dip one frame later: the dip finds a candidate
\* of 0.1 s and does not split it.
C15_ShortCandidateKept ==
    /\ pc = "extracted"
    /\ Len(ref_features.pitch_values) = 12
    /\ SignalTimes(ref_features) = {400, 500}
    /\ Len(ref_notes) = 2
    /\ ref_notes[2].startTime = 400
    /\ ref_notes[2].endTime = 1100

\* No onset and no dip: one note.
C15_OneNote ==
    /\ pc = "extracted"
    /\ Len(ref_features.pitch_values) = 12
    /\ SignalTimes(ref_features) = {}
    /\ Len(ref_notes) = 1

-----------------------------------------------------------------------------
(* Half speed *)

\* The request with the user singing the reference at its own speed or at
\* half speed, every reference frame held for two user frames, on frames
\* of 0.25 s, 0.5 s or one second.
MaxHalfSpeedFrames == 3

InitHalfSpeed ==
    /\ \E q \in NonEmptySeqs(UserPitchSet, MaxHalfSpeedFrames),
          step \in {2500, 5000, 10000}, hold \in {1, 2} :
          /\ ref_features = GridFeature(q, step, Level(q, 3000), <<>>)
          /\ LET p == [i \in 1..(hold * Len(q)) |-> q[(i + hold - 1) \div hold]]
             IN  user_features = GridFeature(p, step, Level(p, 3000), <<>>)
    /\ Blank

SpecHalfSpeed == InitHalfSpeed /\ [][Next]_vars

\* The samples _check_path_sanity takes of the returned path, and the
\* advance of user time and of reference time up to sample i.
PathSamples ==
    SanitySamples(alignment.path, user_features.pitch_times,
                  RefTimes(user_features, ref_features), Len(alignment.path))

UserAdvance(i) == PathSamples[i][1] - PathSamples[i - 1][1]

RefAdvance(i) == PathSamples[i][2] - PathSamples[i - 1][2]

\* User time advances exactly twice as fast as reference time between any
\* two consecutive samples, of which there are at least two.
SlopeTwo ==
    /\ Len(PathSamples) >= 2
    /\ \A i \in 2..Len(PathSamples) :
          RefAdvance(i) > 0 /\ UserAdvance(i) = 2 * RefAdvance(i)

\* C16 as stated: at half speed, slope 2 along the path, every sampled
\* interval is a drift region and is_sane is false.
C16_HalfSpeedIsDrift ==
    (Aligned /\ SlopeTwo) =>
        /\ alignment.path_sanity.is_sane = FALSE
        /\ Len(alignment.path_sanity.drift_regions) = Len(PathSamples) - 1

\* C16, amended: a sampled interval is a drift region when its slope is
\* below 0.5 or above 2.0, a reference that does not advance counting as
\* an infinite slope; at half speed, slope exactly 2.0 between all
\* samples, no interval is flagged, is_sane is true and avg_slope is 2.0.
C16_SlopeTwoIsSane ==
    Aligned =>
        LET flagged == {i \in 2..Len(PathSamples) :
                          \/ RefAdvance(i) <= 0
                          \/ 2 * UserAdvance(i) < RefAdvance(i)
                          \/ UserAdvance(i) > 2 * RefAdvance(i)}
        IN  /\ Len(alignment.path) >= 2 =>
                  /\ alignment.path_sanity.is_sane = (flagged = {})
                  /\ Len(alignment.path_sanity.drift_regions) = Cardinality(flagged)
            /\ SlopeTwo =>
                  /\ alignment.path_sanity.is_sane
                  /\ alignment.path_sanity.drift_regions = <<>>
                  /\ alignment.path_sanity.avg_slope = 2000

\* Three reference frames of 0.5 s held for two user frames each: samples
\* at 0 s, 1 s and 2 s of user time, 0 s, 0.5 s and 1 s of reference time.
C16_Witness ==
    /\ pc = "aligned"
    /\ Len(user_features.pitch_values) = 6
    /\ Len(ref_features.pitch_values) = 3
    /\ PathSamples = << <<0, 0>>, <<10000, 5000>>, <<20000, 10000>> >>
    /\ alignment.path_sanity.is_sane
    /\ alignment.path_sanity.avg_slope = 2000

\* Half speed on one-second frames: a sample at every user frame, every
\* other one on the same reference frame as the one before, an infinite
\* slope and a drift region.
C16_CoarseFramesDrift ==
    /\ pc = "aligned"
    /\ Len(user_features.pitch_values) = 6
    /\ Len(ref_features.pitch_values) = 3
    /\ Len(PathSamples) = 6
    /\ ~alignment.path_sanity.is_sane
    /\ Len(alignment.path_sanity.drift_regions) = 3

-----------------------------------------------------------------------------
(* app.py: one request of process_vocal_analysis *)

\* _compute_xp, for an overall score in 0.1 point.
ComputeXp(overall_score) ==
    IF overall_score >= 900 THEN 50
    ELSE IF overall_score >= 750 THEN 35
    ELSE IF overall_score >= 600 THEN 25
    ELSE IF overall_score >= 400 THEN 15
    ELSE 10

\* refund_s of _refund_quota.
RefundSeconds(duration_ms) == Max2(1, duration_ms \div 1000)

\* GREATEST(0, "freeSecondsUsed" - refund_s)
Refunded(free_seconds_used, duration_ms) ==
    Max2(0, free_seconds_used - RefundSeconds(duration_ms))

\* The records score_standalone takes its default branches on: at most ten
\* voiced frames, at most two onsets and at most three rms values, so that
\* no section holds more than five voiced frames, two onsets or three rms
\* values either.
StandaloneShort(user) ==
    /\ Len(VoicedOf(user.pitch_values)) <= 5
    /\ Len(user.onset_times) <= 2
    /\ Len(user.rms_values) <= 3

\* One entry of the sectionScores of score_standalone on such a record:
\* pitch, timing and dynamics are 50.0 each.
StandaloneSection(sec_idx, duration, num) ==
    [sectionIndex |-> sec_idx,
     startTime |-> RoundDiv(sec_idx * duration, num * 100),
     endTime |-> RoundDiv((sec_idx + 1) * duration, num * 100),
     overallScore |-> 500, pitchScore |-> 500, timingScore |-> 500,
     dynamicsScore |-> 500]

\* The problem area score_standalone makes of a section scoring 50.0
\* throughout: deviations in 0.1 cent and 0.1 ms, the ratio in 0.0001.
StandaloneProblem(sec) ==
    [startTime |-> sec.startTime, endTime |-> sec.endTime,
     issues |-> <<"pitch", "timing", "dynamics">>,
     avgPitchDevCents |-> 1000 - sec.pitchScore,
     avgTimingOffsetMs |-> (1000 - sec.timingScore) * 2,
     avgEnergyRatio |-> 10000]

\* score_standalone(user_features) on a record of StandaloneShort: pitch
\* 30.0, timing 50.0, dynamics 50.0, one section per second of duration_s,
\* and the first three sections (the sort by overall score is stable) as
\* problem areas.
ScoreStandalone(user) ==
    LET num == NumSections(user.duration_s)
        secs == IF user.duration_s > 0
                THEN [s \in 1..num |-> StandaloneSection(s - 1, user.duration_s, num)]
                ELSE <<>>
    IN  [overallScore |-> RoundDiv(WEIGHT_PITCH * 300 + WEIGHT_TIMING * 500
                                   + WEIGHT_DYNAMICS * 500, 20),
         pitchScore |-> 300,
         timingScore |-> 500,
         dynamicsScore |-> 500,
         sectionScores |-> secs,
         problemAreas |-> [k \in 1..Min2(Len(secs), 3) |-> StandaloneProblem(secs[k])]]

\* The parameters of score_recording, and the keyword _score_and_coach_local
\* passes besides the three positional arguments.
ScoreRecordingParams == {"user_features", "ref_features", "alignment"}

ScoreRecordingKeyword == "scoring_level"

\* The steps of the request that talk to the database, the object storage or
\* the audio tools, in the order the handler reaches them.
FailPoints ==
    {"connect", "download", "isolate", "upload", "extract", "load_reference",
     "scoring_stage", "saving", "completing"}

\* The two calls of the handler's inner try block.
HandlerFailPoints == {"status", "refund"}

\* The VocalAnalysisJob row as the caller created it.
NewJob(attempts) ==
    [status |-> "PENDING", stage |-> None, attempts |-> attempts,
     practiceSessionId |-> None, errorMessage |-> None]

\* A request arrives: the recording holds one or two seconds of A4 or an
\* unvoiced second before it, the reference is missing, a two-second A4 or a
\* record without frames, the quota row holds 0, 5 or 100 used seconds, and
\* at most one step of the request and at most one call of the handler fail.
InitJob ==
    /\ \E ms \in {500, 3000, 30000}, headphones \in BOOLEAN,
          has_id \in BOOLEAN :
          req = [recordingDurationMs |-> ms, useHeadphones |-> headphones,
                 referenceVocalId |-> IF has_id THEN Some("ref") ELSE None]
    /\ \E user \in {ToneFeature(1, 10000), ToneFeature(2, 10000),
                    GridFeature(<<0, 8800>>, 10000, <<3000, 3000>>, <<>>)},
          ref \in {None, ToneFeature(2, 10000), GridFeature(<<>>, 10000, <<>>, <<>>)},
          used \in {0, 5, 100}, attempts \in {0, 1},
          fails_at \in FailPoints \cup {"none"},
          handler_fails_at \in HandlerFailPoints \cup {"none"} :
          /\ env = [user |-> user, ref |-> ref, freeSecondsUsed |-> used,
                    attempts |-> attempts, fails_at |-> fails_at,
                    handler_fails_at |-> handler_fails_at]
          /\ job = NewJob(attempts)
          /\ quota = used
    /\ sessions = <<>>
    /\ user_features = None
    /\ ref_features = None
    /\ alignment = None
    /\ report = None
    /\ ref_notes = None
    /\ user_notes = None
    /\ pc = "received"
    /\ error = "none"
    /\ onset_time = None

\* An exception leaves the try block: nothing else is written.
Raise(name) ==
    /\ pc' = "raised"
    /\ error' = name

\* db = _get_db_conn() and the UPDATE that marks the job PROCESSING.
MarkProcessing ==
    /\ pc = "received"
    /\ IF env.fails_at = "connect"
       THEN /\ Raise("OperationalError")
            /\ job' = job
       ELSE /\ job' = [job EXCEPT !.status = "PROCESSING", !.stage = Some("downloading"),
                                  !.attempts = @ + 1]
            /\ pc' = "downloading"
            /\ error' = error
    /\ UNCHANGED <<onset_time, user_features, ref_features, alignment, report, ref_notes,
                   user_notes, req, env, quota, sessions>>

\* _download_from_s3(req.recordingS3Key, recording_path)
Download ==
    /\ pc = "downloading"
    /\ IF env.fails_at = "download"
       THEN Raise("ClientError")
       ELSE pc' = "preparing" /\ error' = error
    /\ UNCHANGED <<onset_time, user_features, ref_features, alignment, report, ref_notes,
                   user_notes, service>>

\* The two branches of the thread pool, _isolate_and_extract and
\* _load_reference, up to the two result() calls.
Prepare ==
    /\ pc = "preparing"
    /\ job' = [job EXCEPT !.stage =
                   IF env.fails_at \in {"isolate", "upload"}
                   THEN Some(IF req.useHeadphones THEN "converting" ELSE "isolating")
                   ELSE Some("extracting")]
    /\ IF env.fails_at \in {"isolate", "upload", "extract", "load_reference"}
       THEN /\ Raise(IF env.fails_at = "isolate" THEN "RuntimeError"
                     ELSE IF env.fails_at = "extract" THEN "ValueError"
                     ELSE "ClientError")
            /\ UNCHANGED <<onset_time, user_features, ref_features>>
       ELSE /\ user_features' = env.user
            /\ ref_features' = env.ref
            /\ pc' = "prepared"
            /\ error' = error
    /\ UNCHANGED <<onset_time, alignment, report, ref_notes, user_notes, req, env, quota,
                   sessions>>

\* _update_job_stage(req.jobId, "scoring", conn=db) and _get_song_title,
\* then the branch _score_and_coach_local takes on ref_features.
BeginScoring ==
    /\ pc = "prepared"
    /\ IF env.fails_at = "scoring_stage"
       THEN /\ Raise("OperationalError")
            /\ job' = job
       ELSE /\ job' = [job EXCEPT !.stage = Some("scoring")]
            /\ pc' = IF ref_features # None THEN "start" ELSE "standalone"
            /\ error' = error
    /\ UNCHANGED <<onset_time, user_features, ref_features, alignment, report, ref_notes,
                   user_notes, req, env, quota, sessions>>

\* score_recording(user_features, ref_features, alignment,
\* scoring_level=scoring_level): the call is bound to the parameters of
\* score_recording before its body runs.
ScoreWithLevel ==
    /\ pc = "aligned"
    /\ job # None
    /\ IF ScoreRecordingKeyword \in ScoreRecordingParams
       THEN /\ report' = ScoreRecording(user_features, ref_features, alignment)
            /\ pc' = "scored"
            /\ error' = error
       ELSE /\ Raise("TypeError")
            /\ report' = report
    /\ UNCHANGED <<onset_time, user_features, ref_features, alignment, ref_notes, user_notes,
                   service>>

\* scores = score_standalone(user_features)
Standalone ==
    /\ pc = "standalone"
    /\ StandaloneShort(user_features)
    /\ report' = ScoreStandalone(user_features)
    /\ pc' = "scored"
    /\ UNCHANGED <<onset_time, user_features, ref_features, alignment, ref_notes, user_notes,
                   error, service>>

\* _update_job_stage(req.jobId, "saving", conn=db), _compute_xp and
\* _create_vocal_practice_session, whose INSERT makes the session row.
Save ==
    /\ pc = "scored"
    /\ job # None
    /\ job' = [job EXCEPT !.stage = Some("saving")]
    /\ IF env.fails_at = "saving"
       THEN /\ Raise("OperationalError")
            /\ sessions' = sessions
       ELSE /\ sessions' = Append(sessions,
                              [id |-> Len(sessions) + 1,
                               overallScore |-> report.overallScore,
                               xpEarned |-> ComputeXp(report.overallScore),
                               durationMs |-> req.recordingDurationMs])
            /\ pc' = "saved"
            /\ error' = error
    /\ UNCHANGED <<onset_time, user_features, ref_features, alignment, report, ref_notes,
                   user_notes, req, env, quota>>

\* The UPDATE that marks the job COMPLETED with the session id, and the
\* response.
Complete ==
    /\ pc = "saved"
    /\ IF env.fails_at = "completing"
       THEN /\ Raise("OperationalError")
            /\ job' = job
       ELSE /\ job' = [job EXCEPT !.status = "COMPLETED",
                                  !.practiceSessionId = Some(sessions[Len(sessions)].id)]
            /\ pc' = "responded"
            /\ error' = error
    /\ UNCHANGED <<onset_time, user_features, ref_features, alignment, report, ref_notes,
                   user_notes, req, env, quota, sessions>>

\* The except clause: _update_job_status(FAILED) and _refund_quota in one
\* inner try whose own exception is logged and dropped, then HTTP 500.
Fail ==
    /\ pc = "raised"
    /\ job # None
    /\ job' = IF env.handler_fails_at = "status" THEN job
              ELSE [job EXCEPT !.status = "FAILED", !.errorMessage = Some(error)]
    /\ quota' = IF env.handler_fails_at \in HandlerFailPoints THEN quota
                ELSE Refunded(quota, req.recordingDurationMs)
    /\ pc' = "rejected"
    /\ UNCHANGED <<onset_time, user_features, ref_features, alignment, report, ref_notes,
                   user_notes, error, req, env, sessions>>

NextJob ==
    \/ MarkProcessing
    \/ Download
    \/ Prepare
    \/ BeginScoring
    \/ Align
    \/ ScoreWithLevel
    \/ Standalone
    \/ Save
    \/ Complete
    \/ Fail

SpecJob == InitJob /\ [][NextJob]_vars

-----------------------------------------------------------------------------
(* Failing requests *)

\* The request raised after its job was marked PROCESSING, and the handler
\* has answered.
FailedAfterMark == pc = "rejected" /\ env.fails_at # "connect"

\* C17: whenever a step of process_vocal_analysis raises after the job was
\* marked PROCESSING, the job ends FAILED and the quota is refunded by
\* max(1, recordingDurationMs // 1000) seconds, floored at 0; no failing
\* request leaves the job PROCESSING or skips the refund.
C17_FailedAndRefunded ==
    FailedAfterMark =>
        /\ job.status = "FAILED"
        /\ quota = Refunded(env.freeSecondsUsed, req.recordingDurationMs)

\* The database is unreachable when the handler runs: _update_job_status
\* raises, the refund is never attempted, the job stays PROCESSING.
C17_StuckProcessing ==
    /\ FailedAfterMark
    /\ env.fails_at = "scoring_stage"
    /\ env.handler_fails_at = "status"
    /\ env.freeSecondsUsed = 100
    /\ req.recordingDurationMs = 30000
    /\ job.status = "PROCESSING"
    /\ job.stage = Some("extracting")
    /\ quota = 100

\* Only _refund_quota raises: the job is FAILED and the quota is not refunded.
C17_FailedUnrefunded ==
    /\ FailedAfterMark
    /\ env.handler_fails_at = "refund"
    /\ env.freeSecondsUsed = 100
    /\ job.status = "FAILED"
    /\ quota = 100

\* With both calls of the handler succeeding the job is FAILED and the
\* refund is max(1, recordingDurationMs // 1000), floored at 0.
C17_HandlerSucceeds ==
    (FailedAfterMark /\ env.handler_fails_at = "none") =>
        /\ job.status = "FAILED"
        /\ job.errorMessage = Some(error)
        /\ quota = Refunded(env.freeSecondsUsed, req.recordingDurationMs)

\* Half a second refunds one second, thirty seconds on five used leave 0.
C17_RefundFloors ==
    /\ FailedAfterMark
    /\ env.handler_fails_at = "none"
    /\ \/ req.recordingDurationMs = 500 /\ env.freeSecondsUsed = 5 /\ quota = 4
       \/ req.recordingDurationMs = 30000 /\ env.freeSecondsUsed = 5 /\ quota = 0

-----------------------------------------------------------------------------
(* Requests with a reference *)

\* Every storage and database step succeeds and reference features were
\* loaded; the request has been answered.
AnsweredWithReference ==
    /\ pc \in {"responded", "rejected"}
    /\ env.fails_at = "none"
    /\ env.handler_fails_at = "none"
    /\ ref_features # None

\* C18: when the recording downloads, reference features are available and
\* every storage and database step succeeds, process_vocal_analysis runs DTW
\* alignment and reference scoring, inserts one VocalPracticeSession and
\* finishes with the job COMPLETED carrying that practiceSessionId.
C18_CompletedWithReference ==
    AnsweredWithReference =>
        /\ alignment # None
        /\ report # None
        /\ Len(sessions) = 1
        /\ job.status = "COMPLETED"
        /\ job.practiceSessionId = Some(sessions[1].id)

\* A two-second A4 sung against a two-second A4 reference: the alignment is
\* made, the score_recording call raises TypeError, no session is inserted
\* and the job is FAILED with the quota refunded.
C18_TypeErrorAfterAlign ==
    /\ AnsweredWithReference
    /\ user_features = ToneFeature(2, 10000)
    /\ ref_features = ToneFeature(2, 10000)
    /\ alignment # None
    /\ alignment.pitch_deviations = <<Some(0), Some(0)>>
    /\ report = None
    /\ error = "TypeError"
    /\ sessions = <<>>
    /\ job.status = "FAILED"
    /\ job.stage = Some("scoring")
    /\ job.practiceSessionId = None
    /\ quota = Refunded(env.freeSecondsUsed, req.recordingDurationMs)

\* No request with a reference is ever scored, saved or completed.
C18_ReferenceNeverCompleted ==
    (ref_features # None /\ pc # "prepared") =>
        /\ report = None
        /\ sessions = <<>>
        /\ job.status # "COMPLETED"

\* Without a reference the request completes on the standalone score.
C18_StandaloneCompleted ==
    /\ pc = "responded"
    /\ user_features # None
    /\ ref_features = None
    /\ report.overallScore = 360
    /\ sessions = <<[id |-> 1, overallScore |-> 360, xpEarned |-> 10,
                     durationMs |-> req.recordingDurationMs]>>
    /\ job.status = "COMPLETED"
    /\ job.stage = Some("saving")
    /\ job.practiceSessionId = Some(1)
    /\ quota = env.freeSecondsUsed

-----------------------------------------------------------------------------
(* Deduplication *)

MaxDedupFrames == 3

\* One or two user frames against up to MaxDedupFrames reference frames of
\* G#4, A4 or silence on 20 ms grids, DTW returning any warping path: one
\* user frame then meets several reference frames.
InitDedup ==
    /\ \E p \in NonEmptySeqs(UserPitchSet, 2) :
          user_features = GridFeature(p, 200, Level(p, 3000), <<>>)
    /\ \E p \in NonEmptySeqs({0, 8304, 8800}, MaxDedupFrames) :
          ref_features = GridFeature(p, 200, [i \in DOMAIN p |-> 1000 * i], <<>>)
    /\ Blank

SpecDedup == InitDedup /\ [][NextPaths]_vars

\* The DTW paths align_features can have made the alignment of the state
\* from, shifted back to the indices of the whole user stream.
ShiftedPathsOf(user, ref, alignment_) ==
    {ShiftPath(p, PrepUser(user, ref).offset) :
        p \in {q \in AnyWarpPaths(UserSeq(user, ref), RefSeq(user, ref)) :
                 alignment_ = AlignFrom(user, ref, q, alignment_.dtw_distance)}}

\* The deviation, raw timing offset and energy ratio of one pair.
PairDeviation(user, ref, pair) ==
    PitchDeviation(FrameAt(user.pitch_values, pair[1]),
                   FrameAt(RefPitch(user, ref), pair[2]))

PairOffset(user, ref, pair) ==
    FrameAt(user.pitch_times, pair[1]) - FrameAt(RefTimes(user, ref), pair[2])

PairEnergy(user, ref, pair) ==
    EnergyRatio(RmsAt(user.pitch_times, user.rms_times, user.rms_values, pair[1]),
                RmsAt(RefTimes(user, ref), RefRmsTimes(user, ref), RefRms(user, ref),
                      pair[2]))

\* d1 is at least as good as d2: an unvoiced deviation counts as infinite.
NoWorse(d1, d2) == d2 = None \/ (d1 # None /\ Abs(Val(d1)) <= Abs(Val(d2)))

\* Pair k of the path is the one deduplication has to keep for its user
\* index: no pair of that user index is better, none before it is as good.
MustKeep(user, ref, path, k) ==
    \A j \in DOMAIN path :
        path[j][1] = path[k][1] =>
            /\ NoWorse(PairDeviation(user, ref, path[k]), PairDeviation(user, ref, path[j]))
            /\ j < k => ~NoWorse(PairDeviation(user, ref, path[j]),
                                 PairDeviation(user, ref, path[k]))

\* C19: deduplication keeps exactly one pair for every user index of the DTW
\* path; among the pairs of one user index it keeps the one of smallest
\* absolute deviation, an unvoiced deviation never beating a voiced one, and
\* on ties the earliest in path order; path, pitch_deviations, timing_offsets
\* and energy_ratios stay index-aligned and of equal length.
C19_DedupKeepsBestPerUserIndex ==
    Aligned =>
        \A path \in ShiftedPathsOf(user_features, ref_features, alignment) :
            /\ Len(alignment.pitch_deviations) = Len(alignment.path)
            /\ Len(alignment.timing_offsets) = Len(alignment.path)
            /\ Len(alignment.energy_ratios) = Len(alignment.path)
            /\ \A k \in DOMAIN path :
                  Cardinality({i \in DOMAIN alignment.path :
                                  alignment.path[i][1] = path[k][1]}) = 1
            /\ \A i \in DOMAIN alignment.path :
                  /\ \E k \in DOMAIN path :
                        /\ path[k] = alignment.path[i]
                        /\ MustKeep(user_features, ref_features, path, k)
                  /\ alignment.pitch_deviations[i] =
                        PairDeviation(user_features, ref_features, alignment.path[i])
                  /\ alignment.energy_ratios[i] =
                        PairEnergy(user_features, ref_features, alignment.path[i])
            /\ alignment.timing_offsets =
                  NormalizeTiming([i \in DOMAIN alignment.path |->
                      PairOffset(user_features, ref_features, alignment.path[i])])

\* One A4 frame against G#4, A4, G#4: three pairs share user index 0 and the
\* exact one in the middle is kept, with the energy ratio 0.3 / 0.2 of its
\* own reference frame.
C19_Witness ==
    /\ pc = "aligned"
    /\ user_features.pitch_values = <<8800>>
    /\ ref_features.pitch_values = <<8304, 8800, 8304>>
    /\ <<<<0, 0>>, <<0, 1>>, <<0, 2>>>> \in
          ShiftedPathsOf(user_features, ref_features, alignment)
    /\ alignment.path = <<<<0, 1>>>>
    /\ alignment.pitch_deviations = <<Some(0)>>
    /\ alignment.energy_ratios = <<Some(15000)>>
    /\ alignment.timing_offsets = <<0>>

\* A tie between two equal deviations keeps the earlier pair.
C19_TieKeepsEarliest ==
    /\ pc = "aligned"
    /\ user_features.pitch_values = <<8800>>
    /\ ref_features.pitch_values = <<8304, 8304>>
    /\ alignment.path = <<<<0, 0>>>>
    /\ alignment.energy_ratios = <<Some(30000)>>

\* An unvoiced pair met first gives way to the voiced pair that follows; with
\* only unvoiced pairs the first one is kept.
C19_VoicedBeatsUnvoiced ==
    /\ pc = "aligned"
    /\ user_features.pitch_values = <<8800, 0>>
    /\ ref_features.pitch_values = <<0, 8304>>
    /\ <<<<0, 0>>, <<0, 1>>, <<1, 1>>>> \in
          ShiftedPathsOf(user_features, ref_features, alignment)
    /\ alignment.path = <<<<0, 1>>, <<1, 1>>>>
    /\ alignment.pitch_deviations[1] # None
    /\ alignment.pitch_deviations[2] = None

-----------------------------------------------------------------------------
(* The singing-onset detector *)

MaxOnsetBlocks == 4

\* Twelve frames (one window step) of one kind: unvoiced, A4, D#4 (595 cents
\* below A4), or A3 and A4 in turn.
OnsetBlock(kind) ==
    [i \in 1..12 |-> CASE kind = "unvoiced" -> 0
                       [] kind = "a4" -> 8800
                       [] kind = "off" -> 6240
                       [] kind = "wobble" -> IF i % 2 = 1 THEN 4400 ELSE 8800]

RECURSIVE OnsetFramesOf(_)
OnsetFramesOf(kinds) ==
    IF kinds = <<>> THEN <<>>
    ELSE OnsetBlock(Head(kinds)) \o OnsetFramesOf(Tail(kinds))

\* A user stream of up to MaxOnsetBlocks blocks, with or without two closing
\* A4 frames, on 20 ms or 10 ms frames; a reference of A4, of A3 after an
\* unvoiced frame, of silence, or voiced only from 5.4 s on.
InitOnset ==
    /\ \E kinds \in SeqsUpTo({"unvoiced", "a4", "off", "wobble"}, MaxOnsetBlocks),
          tail \in {<<>>, <<8800, 8800>>}, step \in {FRAME_DUR, 100} :
          LET p == OnsetFramesOf(kinds) \o tail
          IN  user_features = GridFeature(p, step, Level(p, 3000), <<>>)
    /\ \E ref \in {<<200, <<8800, 8800, 8800>>>>, <<200, <<0, 4400>>>>,
                   <<200, <<0, 0, 0>>>>, <<27000, <<0, 0, 8800>>>>} :
          ref_features = GridFeature(ref[2], ref[1], Level(ref[2], 2000), <<>>)
    /\ Blank

\* singing_onset = _detect_singing_onset(user_pitch, user_times, ref_pitch,
\* ref_times), as align_features calls it.
DetectOnset ==
    /\ pc = "start"
    /\ onset_time' = Some(DetectSingingOnset(user_features.pitch_values,
                                             user_features.pitch_times,
                                             RefPitch(user_features, ref_features),
                                             RefTimes(user_features, ref_features)))
    /\ pc' = "detected"
    /\ UNCHANGED <<user_features, ref_features, alignment, report, ref_notes,
                   user_notes, error, service>>

NextOnset == DetectOnset

SpecOnset == InitOnset /\ [][NextOnset]_vars

\* The voiced reference frames of the first 5 s.
RefHead(user, ref) ==
    VoicedOf(Take(RefPitch(user, ref),
                  FirstAfter(RefTimes(user, ref), REF_HEAD_S, 1)))

\* The window starts the detector examines: every quarter window up to
\* max_search_frames; none when an array is empty or the reference has no
\* voiced frame in its first 5 s.
WindowStarts(user, ref) ==
    IF \/ user.pitch_values = <<>>
       \/ user.pitch_times = <<>>
       \/ RefPitch(user, ref) = <<>>
       \/ RefHead(user, ref) = <<>>
    THEN {}
    ELSE {s \in 0..(Len(user.pitch_values) - 1) :
            /\ s % (WINDOW_S \div (4 * FRAME_DUR)) = 0
            /\ (s + 1) * FRAME_DUR <= Min2(MAX_SEARCH_S,
                                           user.pitch_times[Len(user.pitch_times)])}

\* The three checks on the window starting at frame start: voicing ratio at
\* least 0.30, stability at most 200 cents, folded distance of the medians
\* at most 500 cents.
ThreeChecks(user, ref, start) ==
    LET window == SubSeq(user.pitch_values, start + 1,
                         Min2(start + WINDOW_S \div FRAME_DUR, Len(user.pitch_values)))
        voiced == VoicedOf(window)
        median_hz == MedianHz(voiced)
    IN  /\ 100 * Len(voiced) >= VOICING_THRESH_PCT * Len(window)
        /\ voiced # <<>>
        /\ ~StdExceeds([i \in DOMAIN voiced |->
                           RoundDiv(CentsOfHz(voiced[i]) - CentsOfHz(median_hz), 1000)],
                       STABILITY_THRESH_CENTS)
        /\ Abs(FoldCents(CentsOfHz(median_hz) - CentsOfHz(MedianHz(RefHead(user, ref)))))
              <= PITCH_MATCH_CENTS * 1000

StartTime(user, start) == user.pitch_times[start + 1]

C20_UnstableIsZero ==
    /\ pc = "detected"
    /\ user_features.pitch_values = OnsetFramesOf(<<"wobble", "wobble", "wobble">>)
    /\ ref_features.pitch_values = <<8800, 8800, 8800>>
    /\ WindowStarts(user_features, ref_features) # {}
    /\ onset_time = Some(0)

\* The reference is voiced only from 5.4 s on: 0 is returned for a user
\* stream whose second block alone would pass.
C20_LateReferenceIsZero ==
    /\ pc = "detected"
    /\ user_features.pitch_values = OnsetFramesOf(<<"unvoiced", "unvoiced", "unvoiced", "a4">>)
    /\ ref_features.pitch_values = <<0, 0, 8800>>
    /\ RefHead(user_features, ref_features) = <<>>
    /\ onset_time = Some(0)

\* A window that passes the three checks is taken only when it holds three
\* voiced frames or more.
C20_ReturnsFirstOfThreeVoiced ==
    pc = "detected" =>
        LET starts == WindowStarts(user_features, ref_features)
            taken == {s \in starts :
                        /\ ThreeChecks(user_features, ref_features, s)
                        /\ Len(VoicedOf(SubSeq(user_features.pitch_values, s + 1,
                               Min2(s + WINDOW_S \div FRAME_DUR,
                                    Len(user_features.pitch_values))))) >= 3}
        IN  Val(onset_time) = IF taken = {} THEN 0
                              ELSE StartTime(user_features, SetMin(taken))

\* An unvoiced block and two A4 frames: the window at 0.24 s holds the two
\* voiced frames only, passes the three checks and is skipped; 0 is
\* returned.
C20_TwoVoicedFramesSkipped ==
    /\ pc = "detected"
    /\ user_features.pitch_values = OnsetFramesOf(<<"unvoiced">>) \o <<8800, 8800>>
    /\ user_features.pitch_times[2] = FRAME_DUR
    /\ ref_features.pitch_values = <<8800, 8800, 8800>>
    /\ WindowStarts(user_features, ref_features) = {0, 12}
    /\ ThreeChecks(user_features, ref_features, 12)
    /\ onset_time = Some(0)

-----------------------------------------------------------------------------
(* The windows of the detector *)

MaxLeadFrames == 290

\* A user stream on the nominal 20 ms grid: up to MaxLeadFrames unvoiced
\* frames, then twenty or fifty frames of A4, against a reference of A4.  The
\* longest streams run past the 5 s the detector searches.
InitSearch ==
    /\ \E lead \in 0..MaxLeadFrames, sung \in {20, 50} :
          LET p == [i \in 1..(lead + sung) |-> IF i <= lead THEN 0 ELSE 8800]
          IN  user_features = GridFeature(p, FRAME_DUR, Level(p, 3000), <<>>)
    /\ ref_features = GridFeature(<<8800, 8800, 8800>>, FRAME_DUR,
                                  <<2000, 2000, 2000>>, <<>>)
    /\ Blank

SpecSearch == InitSearch /\ [][NextOnset]_vars

\* The number of unvoiced frames the stream begins with.
LeadFrames(user) ==
    Cardinality({i \in DOMAIN user.pitch_values : user.pitch_values[i] = 0})

\* The frame the returned onset is the time of, on the nominal grid.
OnsetFrame == Val(onset_time) \div FRAME_DUR

\* The search limit min(5 s, user_times[-1]).
SearchLimit(user) == Min2(MAX_SEARCH_S, user.pitch_times[Len(user.pitch_times)])

\* C21 as stated: the windows are 1.0 s (50 frames) long and their start
\* times advance by 0.25 s, all within the first min(5 s, duration).
C21_QuarterSecondSteps ==
    (pc = "detected" /\ Val(onset_time) # 0) =>
        /\ Val(onset_time) % (WINDOW_S \div 4) = 0
        /\ Val(onset_time) < SearchLimit(user_features)
        /\ OnsetFrame + WINDOW_S \div FRAME_DUR <= Len(user_features.pitch_values)

\* C21, amended: the window starts advance by 12 frames (0.24 s), every
\* start lies before min(5 s, user_times[-1]), and a window holds the 50
\* frames from its start or, at the end of the stream, the frames left; the
\* returned onset is the start of the first such window that passes.
C21_TwelveFrameSteps ==
    (pc = "detected" /\ Val(onset_time) # 0) =>
        /\ Val(onset_time) % (12 * FRAME_DUR) = 0
        /\ Val(onset_time) < SearchLimit(user_features)
        /\ OnsetFrame \in WindowStarts(user_features, ref_features)
        /\ ThreeChecks(user_features, ref_features, OnsetFrame)
        /\ \A s \in WindowStarts(user_features, ref_features) :
              /\ s % 12 = 0
              /\ s * FRAME_DUR < SearchLimit(user_features)
              /\ s < OnsetFrame => ~ThreeChecks(user_features, ref_features, s)

\* 40 unvoiced frames, then 50 of A4: the window at 0 holds 10 voiced frames
\* of 50, the window at frame 12 holds 22, and 0.24 s is returned.
C21_Witness ==
    /\ pc = "detected"
    /\ LeadFrames(user_features) = 40
    /\ Len(user_features.pitch_values) = 90
    /\ onset_time = Some(2400)

\* 270 unvoiced frames: the window at 4.8 s is the last one examined and the
\* first to pass.
C21_LastWindow ==
    /\ pc = "detected"
    /\ LeadFrames(user_features) = 270
    /\ Len(user_features.pitch_values) = 320
    /\ SearchLimit(user_features) = MAX_SEARCH_S
    /\ WindowStarts(user_features, ref_features) = {12 * k : k \in 0..20}
    /\ onset_time = Some(48000)

\* 280 unvoiced frames: the first passing window would start at 5.04 s, past
\* the search limit, and 0 is returned.
C21_PastSearchLimit ==
    /\ pc = "detected"
    /\ LeadFrames(user_features) = 280
    /\ Len(user_features.pitch_values) = 330
    /\ ThreeChecks(user_features, ref_features, 252)
    /\ onset_time = Some(0)

\* 50 unvoiced frames and 20 of A4: the window at frame 24 is cut to the 46
\* frames left and passes with 20 of them voiced.
C21_TruncatedWindow ==
    /\ pc = "detected"
    /\ LeadFrames(user_features) = 50
    /\ Len(user_features.pitch_values) = 70
    /\ ~ThreeChecks(user_features, ref_features, 12)
    /\ onset_time = Some(4800)

-----------------------------------------------------------------------------
(* Trimming the user stream *)

MaxTrimLead == 13

\* A user stream of up to MaxTrimLead leading frames, unvoiced or of D#4,
\* then 3, 4 or 15 frames of A4, on 20 ms or 10 ms frames, against one or two
\* reference frames; DTW returns any warping path.
InitTrim ==
    /\ \E lead \in 0..MaxTrimLead, noise \in {0, 6240}, sung \in {3, 4, 15},
          step \in {FRAME_DUR, 100} :
          LET p == [i \in 1..(lead + sung) |-> IF i <= lead THEN noise ELSE 8800]
          IN  user_features = GridFeature(p, step, Level(p, 3000), <<>>)
    /\ \E p \in {<<8800>>, <<8800, 8304>>, <<0, 8800>>} :
          ref_features = GridFeature(p, FRAME_DUR, Level(p, 2000), <<>>)
    /\ Blank

\* align_features alone.
NextAlign == AlignAnyPath

SpecTrim == InitTrim /\ [][NextAlign]_vars

\* The onset align_features detects on the inputs of the state, and the
\* number of user frames it trims.
DetectedOnset ==
    DetectSingingOnset(user_features.pitch_values, user_features.pitch_times,
                       RefPitch(user_features, ref_features),
                       RefTimes(user_features, ref_features))

TrimmedFrames == PrepUser(user_features, ref_features).offset

\* C22: user frames are trimmed only when the detected onset exceeds 0.2 s;
\* every user index of the returned path is a valid index of the untrimmed
\* user arrays and at least the number of trimmed frames, after a trim it
\* addresses a frame at or after the detected onset, and every reference
\* index is a valid index of the truncated reference arrays.
C22_ShiftedIndicesValid ==
    pc = "aligned" =>
        /\ TrimmedFrames > 0 => DetectedOnset > ONSET_TRIM_S
        /\ \A k \in DOMAIN alignment.path :
              LET u_idx == alignment.path[k][1]
                  r_idx == alignment.path[k][2]
              IN  /\ 0 <= u_idx
                  /\ u_idx < Len(user_features.pitch_values)
                  /\ u_idx < Len(user_features.pitch_times)
                  /\ u_idx >= TrimmedFrames
                  /\ TrimmedFrames > 0 =>
                        user_features.pitch_times[u_idx + 1] >= DetectedOnset
                  /\ 0 <= r_idx
                  /\ r_idx < Len(RefPitch(user_features, ref_features))
                  /\ r_idx < Len(RefTimes(user_features, ref_features))

\* Twelve unvoiced frames and three of A4 on the 20 ms grid: the onset is
\* 0.24 s, twelve frames are trimmed and the path runs over the user
\* indices 12, 13 and 14.
C22_Witness ==
    /\ pc = "aligned"
    /\ Len(user_features.pitch_values) = 15
    /\ user_features.pitch_values[12] = 0
    /\ user_features.pitch_times[2] = FRAME_DUR
    /\ Len(ref_features.pitch_values) = 2
    /\ DetectedOnset = 2400
    /\ TrimmedFrames = 12
    /\ alignment.path = <<<<12, 0>>, <<13, 0>>, <<14, 1>>>>

\* Twelve frames of D#4 and fifteen of A4 on 10 ms frames: the onset is
\* 0.12 s, nothing is trimmed and the path begins at user index 0.
C22_ShortOnsetKept ==
    /\ pc = "aligned"
    /\ Len(user_features.pitch_values) = 27
    /\ DetectedOnset = 1200
    /\ TrimmedFrames = 0
    /\ alignment.path[1] = <<0, 0>>

-----------------------------------------------------------------------------
(* Truncating the reference *)

MaxCutFrames == 9

\* A feature record on a grid that begins at time t0.
ShiftedFeature(pitch, step, t0) ==
    [GridFeature(pitch, step, Level(pitch, 2000), <<>>) EXCEPT
        !.pitch_times = [i \in DOMAIN pitch |-> t0 + (i - 1) * step],
        !.rms_times = [i \in DOMAIN pitch |-> t0 + (i - 1) * step],
        !.duration_s = t0 + Len(pitch) * step]

\* One or two seconds of user stream on one-second frames (cutoffs 6.2 s and
\* 7.4 s) against a reference of up to MaxCutFrames one-second frames that
\* begins at 0, 7 or 8 s; DTW returns any warping path.
InitCut ==
    /\ \E n \in 1..2 : user_features = ToneFeature(n, 10000)
    /\ \E n \in 1..MaxCutFrames, t0 \in {0, 70000, 80000}, f \in {8304, 8800} :
          ref_features = ShiftedFeature([i \in 1..n |-> IF i = 1 THEN f ELSE 8800],
                                        10000, t0)
    /\ Blank

SpecCut == InitCut /\ [][NextAlign]_vars

\* The cutoff user_dur * 1.2 + 5.0 is exceeded by time t (both times ten).
PastCutoff(user, t) == 10 * t > MaxRefDur10(user.duration_s)

\* The positions of the reference frames at or before the cutoff.
FramesInCutoff(user, ref) ==
    {i \in DOMAIN ref.pitch_times : ~PastCutoff(user, ref.pitch_times[i])}

\* C23: when the reference duration exceeds user_duration * 1.2 + 5 s, the
\* reference pitch and time arrays used for alignment are the same prefix,
\* of equal length, holding exactly the frames whose time is at most the
\* cutoff, none when no frame is; otherwise both are left whole.
C23_TruncatedTogether ==
    pc # "start" =>
        LET ref_pitch == RefPitch(user_features, ref_features)
            ref_times == RefTimes(user_features, ref_features)
            inside == FramesInCutoff(user_features, ref_features)
        IN  IF PastCutoff(user_features, ref_features.duration_s)
            THEN /\ Len(ref_pitch) = Len(ref_times)
                 /\ inside = 1..Len(ref_times)
                 /\ ref_pitch = SubSeq(ref_features.pitch_values, 1, Len(ref_pitch))
                 /\ ref_times = SubSeq(ref_features.pitch_times, 1, Len(ref_times))
            ELSE /\ ref_pitch = ref_features.pitch_values
                 /\ ref_times = ref_features.pitch_times

\* A one-second user stream (cutoff 6.2 s) against three reference frames at
\* 7, 8 and 9 s: cut_idx is 0, the pitch array is cut to nothing and the
\* time array is left whole; align_features raises.
C23_PitchCutTimesWhole ==
    /\ pc = "raised"
    /\ error = "ValueError"
    /\ user_features = ToneFeature(1, 10000)
    /\ ref_features.pitch_times = <<70000, 80000, 90000>>
    /\ CutIdx(user_features, ref_features) = Some(0)
    /\ RefPitch(user_features, ref_features) = <<>>
    /\ RefTimes(user_features, ref_features) = <<70000, 80000, 90000>>

\* With a frame at or before the cutoff both arrays are cut to the frames
\* up to it: nine frames from 0 s on keep the seven up to 6 s.
C23_CutTogether ==
    /\ pc = "aligned"
    /\ user_features = ToneFeature(1, 10000)
    /\ Len(ref_features.pitch_values) = 9
    /\ ref_features.pitch_times[1] = 0
    /\ Len(RefPitch(user_features, ref_features)) = 7
    /\ RefTimes(user_features, ref_features)
          = <<0, 10000, 20000, 30000, 40000, 50000, 60000>>

\* Whenever a reference frame lies at or before the cutoff the claim holds.
C23_HoldsWithFrameInCutoff ==
    FramesInCutoff(user_features, ref_features) # {} => C23_TruncatedTogether

-----------------------------------------------------------------------------
(* Greedy selection of problem areas *)

\* The candidate windows of the scored state, with their badness.
Candidates ==
    IF user_features.pitch_times = <<>> THEN <<>>
    ELSE ProblemWindows(alignment, user_features.pitch_times, ref_features.pitch_times)

\* The badness of the candidate window a returned area was made from: window
\* starts are distinct.
BadnessOf(cands, area) ==
    LET i == CHOOSE k \in DOMAIN cands : cands[k].startTime = area.startTime
    IN  cands[i].badness

AreaBadness(cands, areas) == [i \in DOMAIN areas |-> BadnessOf(cands, areas[i])]

IsReturned(c, areas) == \E i \in DOMAIN areas : areas[i] = StripBadness(c)

GreedyByBadness(cands, areas, bad) ==
    /\ \A i \in DOMAIN areas : \E k \in DOMAIN cands : areas[i] = StripBadness(cands[k])
    /\ \A i, j \in DOMAIN areas : i < j => bad[i] >= bad[j]
    /\ cands # <<>> =>
          /\ areas # <<>>
          /\ \A k \in DOMAIN cands : bad[1] >= cands[k].badness
    /\ \A k \in DOMAIN cands :
          ~IsReturned(cands[k], areas) =>
              \/ Len(areas) = MAX_PROBLEM_AREAS
              \/ \E i \in DOMAIN areas :
                    /\ Overlaps(cands[k], areas[i])
                    /\ bad[i] >= cands[k].badness

\* C24: the returned areas are in non-increasing badness order, the first is
\* a candidate window of maximal badness, and a candidate window is left out
\* only if it overlaps a selected window of greater or equal badness or
\* three areas were selected.
C24_GreedyByBadness ==
    pc = "scored" =>
        LET cands == Candidates
            areas == report.problemAreas
        IN  GreedyByBadness(cands, areas, AreaBadness(cands, areas))

\* Six frames two seconds apart sung 200, 0, 300, 0, 200 and 300 cents off:
\* five windows are candidates; the first window of the third frame is the
\* worst and comes first, its neighbour overlaps it and is left out, then
\* come the window of the first frame and the first window of the fifth.
C24_Witness ==
    /\ pc = "scored"
    /\ alignment.pitch_deviations
          = <<Some(20000), Some(0), Some(30000), Some(0), Some(20000), Some(30000)>>
    /\ user_features.pitch_times[2] = 20000
    /\ Len(Candidates) = 5
    /\ Len(report.problemAreas) = 3
    /\ report.problemAreas[1].startTime = 300
    /\ report.problemAreas[2].startTime = 0
    /\ report.problemAreas[3].startTime = 700
    /\ BadnessOf(Candidates, report.problemAreas[1])
          > BadnessOf(Candidates, report.problemAreas[2])

-----------------------------------------------------------------------------
(* The issues of a window *)

\* score_recording applied to alignments whose windows sit on the issue
\* thresholds: 150 and 150.02 cents, 1.5 s and 1.5002 s, no ratio, 0.35,
\* 0.3498 and 5.6502 (with 0.3498 a mean of exactly 3.0), on up to
\* MaxIssueFrames frames one or two seconds apart and a closing frame on
\* pitch, on time and at the reference energy.
MaxIssueFrames == 2

InitIssues ==
    \E n \in 1..MaxIssueFrames, step \in {10000, 20000} :
        \E devs \in [1..n -> {None, Some(15000), Some(-15002)}],
           offs \in [1..n -> {15000, -15002}],
           rats \in [1..n -> {None, Some(3500), Some(3498), Some(56502)}] :
            AlignedWith(n + 1, step, devs \o <<Some(0)>>, offs \o <<0>>,
                        rats \o <<Some(10000)>>)

SpecIssues == InitIssues /\ [][NextScore]_vars

RECURSIVE SumOver(_, _)
SumOver(f, S) ==
    IF S = {} THEN 0 ELSE LET k == CHOOSE x \in S : TRUE IN f[k] + SumOver(f, S \ {k})

\* The starts of the windows of the slide, in time units.
SlideStarts ==
    LET times == user_features.pitch_times
        duration == times[Len(times)]
    IN  {t \in {k * 10000 : k \in 0..(duration \div 10000)} : t + 20000 <= duration + 100}

\* The path pairs of the window that starts at t, those with a pitch
\* deviation and those with an energy ratio.
PairsIn(t) ==
    {k \in DOMAIN alignment.path :
        /\ alignment.path[k][1] < Len(user_features.pitch_times)
        /\ user_features.pitch_times[alignment.path[k][1] + 1] >= t
        /\ user_features.pitch_times[alignment.path[k][1] + 1] < t + 20000}

VoicedIn(t) == {k \in PairsIn(t) : alignment.pitch_deviations[k] # None}

RatedIn(t) == {k \in PairsIn(t) : alignment.energy_ratios[k] # None}

\* Mean absolute cents above 150, mean absolute offset above 1.5 s, mean
\* ratio outside [0.35, 3.0].
PitchIssueIn(t) ==
    /\ VoicedIn(t) # {}
    /\ SumOver([k \in VoicedIn(t) |-> Abs(Val(alignment.pitch_deviations[k]))], VoicedIn(t))
          > 15000 * Cardinality(VoicedIn(t))

TimingIssueIn(t) ==
    /\ PairsIn(t) # {}
    /\ SumOver([k \in PairsIn(t) |-> Abs(alignment.timing_offsets[k])], PairsIn(t))
          > 15000 * Cardinality(PairsIn(t))

RatioSumIn(t) == SumOver([k \in RatedIn(t) |-> Val(alignment.energy_ratios[k])], RatedIn(t))

DynamicsIssueIn(t) ==
    /\ RatedIn(t) # {}
    /\ \/ RatioSumIn(t) < 3500 * Cardinality(RatedIn(t))
       \/ RatioSumIn(t) > 30000 * Cardinality(RatedIn(t))

IssuesIn(t) ==
    (IF PitchIssueIn(t) THEN <<"pitch">> ELSE <<>>)
    \o (IF TimingIssueIn(t) THEN <<"timing">> ELSE <<>>)
    \o (IF DynamicsIssueIn(t) THEN <<"dynamics">> ELSE <<>>)

\* The candidate windows that start at t.
CandidatesAt(cands, t) == {i \in DOMAIN cands : cands[i].startTime * 100 = t}

AreasHaveIssues(cands, areas) ==
    \A i \in DOMAIN areas :
        /\ areas[i].issues # <<>>
        /\ \E k \in DOMAIN cands : areas[i] = StripBadness(cands[k])

\* Every window is a candidate exactly when one of its three means is past
\* its threshold, with exactly those issues.
IssuesOfEveryWindow(cands) ==
    \A t \in SlideStarts :
        /\ CandidatesAt(cands, t) # {} <=> IssuesIn(t) # <<>>
        /\ \A i \in CandidatesAt(cands, t) : cands[i].issues = IssuesIn(t)

\* The same for the windows that hold a pair with a pitch deviation; the
\* other windows are no candidates.
IssuesOfVoicedWindows(cands) ==
    \A t \in SlideStarts :
        /\ CandidatesAt(cands, t) # {} <=> (VoicedIn(t) # {} /\ IssuesIn(t) # <<>>)
        /\ \A i \in CandidatesAt(cands, t) : cands[i].issues = IssuesIn(t)

\* C25 as stated: every window of the slide is a candidate with 'pitch' iff
\* its mean absolute cents exceed 150, 'timing' iff its mean absolute offset
\* exceeds 1.5 s, 'dynamics' iff its mean ratio is outside [0.35, 3.0], it is
\* a candidate exactly when one of these holds, and every reported area has
\* issues.
C25_EveryWindowIssues ==
    pc = "scored" =>
        LET cands == Candidates
        IN  IssuesOfEveryWindow(cands) /\ AreasHaveIssues(cands, report.problemAreas)

\* C25: the statement holds for every window with at least one voiced pair;
\* a window whose pairs are all unvoiced is never a candidate, whatever its
\* timing offsets and energy ratios.
C25_VoicedWindowIssues ==
    pc = "scored" =>
        LET cands == Candidates
        IN  IssuesOfVoicedWindows(cands) /\ AreasHaveIssues(cands, report.problemAreas)

\* Two frames a second apart, 150 and 150.02 cents off, 1.5 s and 1.5002 s
\* off, at ratios 0.35 and 0.3498: each mean is just past its threshold and
\* the window [0 s, 2 s) is reported with all three issues.
C25_Witness ==
    /\ pc = "scored"
    /\ user_features.pitch_times = <<0, 10000, 20000>>
    /\ alignment.pitch_deviations = <<Some(15000), Some(-15002), Some(0)>>
    /\ alignment.timing_offsets = <<15000, -15002, 0>>
    /\ alignment.energy_ratios = <<Some(3500), Some(3498), Some(10000)>>
    /\ Len(report.problemAreas) = 1
    /\ report.problemAreas[1].issues = <<"pitch", "timing", "dynamics">>

\* Every mean exactly on its threshold, 150 cents, 1.5 s and 3.0: no issue
\* and no area.
C25_OnThresholds ==
    /\ pc = "scored"
    /\ user_features.pitch_times = <<0, 10000, 20000>>
    /\ alignment.pitch_deviations = <<Some(15000), Some(15000), Some(0)>>
    /\ alignment.timing_offsets = <<15000, 15000, 0>>
    /\ alignment.energy_ratios = <<Some(3498), Some(56502), Some(10000)>>
    /\ report.problemAreas = <<>>

\* A voiced window 1.5002 s off in time and nothing else: reported for its
\* timing alone.
C25_TimingAlone ==
    /\ pc = "scored"
    /\ user_features.pitch_times = <<0, 20000>>
    /\ alignment.pitch_deviations = <<Some(15000), Some(0)>>
    /\ alignment.timing_offsets = <<-15002, 0>>
    /\ alignment.energy_ratios = <<None, Some(10000)>>
    /\ Len(report.problemAreas) = 1
    /\ report.problemAreas[1].issues = <<"timing">>

\* The same window unvoiced: its mean offset is above 1.5 s, and it is no
\* candidate.
C25_UnvoicedWindowSkipped ==
    /\ pc = "scored"
    /\ user_features.pitch_times = <<0, 20000>>
    /\ alignment.pitch_deviations = <<None, Some(0)>>
    /\ alignment.timing_offsets = <<-15002, 0>>
    /\ TimingIssueIn(0)
    /\ report.problemAreas = <<>>

-----------------------------------------------------------------------------
(* The note aligner on its own *)

\* _align_notes applied to two note lists as _extract_notes leaves them, in
\* start order: up to MaxUserNotes user notes of 120 ms that start 200 ms,
\* 1 s or 2.5 s apart from 0, 300 ms or 2.5 s on, and up to MaxRefNotes
\* reference notes at increasing starts.
MaxUserNotes == 10
MaxRefNotes == 3

NoteAt(start_ms) == NoteDict(start_ms * 10, (start_ms + 120) * 10, <<8800>>)

Ascending(S) ==
    [i \in 1..Cardinality(S) |-> CHOOSE x \in S : Cardinality({y \in S : y < x}) = i - 1]

InitAligner ==
    /\ \E n \in 0..MaxUserNotes, first \in {0, 300, 2500}, gap \in {200, 1000, 2500} :
          user_notes = [i \in 1..n |-> NoteAt(first + (i - 1) * gap)]
    /\ \E starts \in SUBSET {0, 300, 1800, 2500, 5000, 7000} :
          /\ Cardinality(starts) <= MaxRefNotes
          /\ ref_notes = [i \in 1..Cardinality(starts) |-> NoteAt(Ascending(starts)[i])]
    /\ user_features = None
    /\ ref_features = None
    /\ alignment = None
    /\ report = None
    /\ pc = "extracted"
    /\ error = "none"
    /\ NoJob
    /\ onset_time = None

AlignNotesStep ==
    /\ pc = "extracted"
    /\ report' = [noteComparison |-> AlignNotes(ref_notes, user_notes)]
    /\ pc' = "compared"
    /\ UNCHANGED <<onset_time, user_features, ref_features, alignment, ref_notes, user_notes, error, service>>

NextAligner == AlignNotesStep

SpecAligner == InitAligner /\ [][NextAligner]_vars

\* The 0-based index of the user note an entry was matched with: user
\* notes start at distinct times.
UserIndexOf(pair) ==
    CHOOSE j \in 0..(Len(user_notes) - 1) :
        user_notes[j + 1].startTime = Val(pair.userStartTime)

\* The cursor before reference note k: just past the latest match of the
\* entries before it.
CursorBefore(pairs, k) ==
    LET earlier == {i \in 1..(k - 1) : Matched(pairs[i])}
    IN  IF earlier = {} THEN 0 ELSE UserIndexOf(pairs[SetMax(earlier)]) + 1

StartDiff(j, k) == Abs(user_notes[j + 1].startTime - ref_notes[k].startTime)

\* The user notes reference note k may be matched with: at most 8 from the
\* cursor on, not more than 2.0 s away.
Qualifying(pairs, k) ==
    {j \in CursorBefore(pairs, k)..(Min2(CursorBefore(pairs, k) + 8, Len(user_notes)) - 1) :
        StartDiff(j, k) <= 2000}

NearestFromCursor(pairs) ==
    \A k \in DOMAIN pairs :
        LET cands == Qualifying(pairs, k)
        IN  IF cands = {} THEN ~Matched(pairs[k])
            ELSE /\ Matched(pairs[k])
                 /\ UserIndexOf(pairs[k]) \in cands
                 /\ \A j \in cands :
                       \/ StartDiff(UserIndexOf(pairs[k]), k) < StartDiff(j, k)
                       \/ /\ StartDiff(UserIndexOf(pairs[k]), k) = StartDiff(j, k)
                          /\ UserIndexOf(pairs[k]) <= j

\* C26: each reference note is matched with the user note nearest in start
\* time among the at most 8 from the cursor on, if that is within 2.0 s,
\* the earliest on ties; the cursor then stands just past the match, and
\* with no such user note the reference note is unmatched and the cursor
\* stays.
C26_NearestWithinEightFromCursor ==
    pc = "compared" =>
        /\ Len(report.noteComparison) = Len(ref_notes)
        /\ NearestFromCursor(report.noteComparison)

\* Ten user notes 200 ms apart and a reference note at 1.8 s: the tenth
\* user note starts with it, and the match is the eighth, at 1.4 s.
C26_Witness ==
    /\ pc = "compared"
    /\ Len(user_notes) = 10
    /\ user_notes[10].startTime = 1800
    /\ Len(ref_notes) = 1
    /\ ref_notes[1].startTime = 1800
    /\ report.noteComparison[1].userStartTime = Some(1400)

\* A reference note at 300 ms between user notes at 200 and 400 ms: the
\* earlier one is taken.
C26_TieTakesEarliest ==
    /\ pc = "compared"
    /\ Len(user_notes) >= 3
    /\ user_notes[2].startTime = 200
    /\ user_notes[3].startTime = 400
    /\ Len(ref_notes) = 1
    /\ ref_notes[1].startTime = 300
    /\ report.noteComparison[1].userStartTime = Some(200)

\* User notes at 2.5 s and 5 s, reference notes at 0 s and 2.5 s: the first
\* reference note is unmatched, the second is matched with the first user
\* note.
C26_UnmatchedKeepsCursor ==
    /\ pc = "compared"
    /\ Len(user_notes) = 2
    /\ user_notes[1].startTime = 2500
    /\ Len(ref_notes) = 2
    /\ ref_notes[1].startTime = 0
    /\ ref_notes[2].startTime = 2500
    /\ ~Matched(report.noteComparison[1])
    /\ report.noteComparison[2].userStartTime = Some(2500)

\* C28: no user note is matched with two reference notes, and the user
\* indices of the matched entries increase strictly in reference order.
C28_MatchesIncrease ==
    pc = "compared" =>
        LET pairs == report.noteComparison
        IN  \A i, k \in DOMAIN pairs :
                (i < k /\ Matched(pairs[i]) /\ Matched(pairs[k])) =>
                    UserIndexOf(pairs[i]) < UserIndexOf(pairs[k])

\* User notes at 0 s and 1 s, reference notes at 0 s and 300 ms: the second
\* reference note is nearest to the first user note, which is taken, and
\* is matched with the second.
C28_Witness ==
    /\ pc = "compared"
    /\ Len(user_notes) = 2
    /\ user_notes[1].startTime = 0
    /\ user_notes[2].startTime = 1000
    /\ Len(ref_notes) = 2
    /\ ref_notes[2].startTime = 300
    /\ report.noteComparison[1].userStartTime = Some(0)
    /\ report.noteComparison[2].userStartTime = Some(1000)

-----------------------------------------------------------------------------
(* The sections of the user timeline *)

\* The sections (0-based) that count path pair k of the scored request.
SectionsHolding(k) ==
    LET times == user_features.pitch_times
        duration == times[Len(times)]
        num == NumSections(duration)
    IN  {s \in 0..(num - 1) : SectionPairs(alignment, times, s, duration, num)[k]}

PairTime(k) == user_features.pitch_times[alignment.path[k][1] + 1]

ValidPairs == {k \in DOMAIN alignment.path : alignment.path[k][1] < Len(user_features.pitch_times)}

UserDuration == user_features.pitch_times[Len(user_features.pitch_times)]

\* C27 as stated: every path pair with a valid user index, the pair of the
\* last user frame included, is counted in exactly one section, and there
\* are max(1, round(user_times[-1])) sections.
C27_SectionsPartition ==
    (pc = "scored" /\ user_features.pitch_times # <<>>) =>
        /\ Len(report.sectionScores) = Max2(1, RoundDiv(UserDuration, 10000))
        /\ \A k \in ValidPairs : Cardinality(SectionsHolding(k)) = 1

\* What the sections do: a pair before user_times[-1] is counted in exactly
\* one section, a pair at user_times[-1] in none.
C27_LastFrameLeftOut ==
    (pc = "scored" /\ user_features.pitch_times # <<>>) =>
        /\ Len(report.sectionScores) = Max2(1, RoundDiv(UserDuration, 10000))
        /\ \A k \in ValidPairs :
              Cardinality(SectionsHolding(k)) = IF PairTime(k) < UserDuration THEN 1 ELSE 0

\* Three frames a second apart, the last one 300 cents off: both sections
\* score 100 for pitch, the record as a whole does not.
C27_LastFrameUnscored ==
    /\ pc = "scored"
    /\ user_features.pitch_times = <<0, 10000, 20000>>
    /\ alignment.pitch_deviations = <<Some(0), Some(0), Some(30000)>>
    /\ Len(report.sectionScores) = 2
    /\ \A s \in 1..2 : report.sectionScores[s].pitchScore = Some(1000)
    /\ SectionsHolding(3) = {}
    /\ report.pitchScore < 1000

\* A record of one frame at 0 s: its one section is empty.
C27_SingleFrameNoSection ==
    /\ pc = "scored"
    /\ user_features.pitch_times = <<0>>
    /\ Len(report.sectionScores) = 1
    /\ report.sectionScores[1].pitchScore = None
    /\ SectionsHolding(1) = {}

-----------------------------------------------------------------------------
(* Notes at the reference cutoff *)

\* max_ref_t of the scored request, in ms times 100.
MaxRefT == MaxRefDur10(user_features.duration_s)

\* C29 as stated: with max_time_s every emitted reference note, the one
\* still open when the scan stops at the cutoff included, has
\* endTime <= max_time_s.
C29_NotesEndBeforeCutoff ==
    pc = "extracted" =>
        \A k \in DOMAIN ref_notes : ref_notes[k].endTime * 100 <= MaxRefT

\* What the extractor keeps: every note starts at a scanned frame, and only
\* the last note can end past the cutoff, at the last frame of the stream.
C29_OnlyOpenNotePastCutoff ==
    pc = "extracted" =>
        \A k \in DOMAIN ref_notes :
            /\ ref_notes[k].startTime * 100 <= MaxRefT
            /\ ref_notes[k].endTime * 100 > MaxRefT =>
                  /\ k = Len(ref_notes)
                  /\ ref_notes[k].endTime = LastTime(ref_features)

\* Five reference frames two seconds apart against a user record of 20 ms:
\* max_ref_t is 5.024 s, the scan stops at the frame at 6 s, and the note
\* open since 0 s is closed at the last frame, 8 s.
C29_OpenNoteClosedAtStreamEnd ==
    /\ pc = "extracted"
    /\ ref_features.pitch_values = <<8800, 8800, 8800, 8800, 8800>>
    /\ ref_features.pitch_times = <<0, 20000, 40000, 60000, 80000>>
    /\ MaxRefT = 502400
    /\ ref_notes = <<[startTime |-> 0, endTime |-> 8000, note |-> HzToNote(8800),
                     hz |-> 8800]>>

\* The same with the frames past the cutoff unvoiced: the note sung up to
\* 4 s still ends at 8 s.
C29_UnvoicedTailCounted ==
    /\ pc = "extracted"
    /\ ref_features.pitch_values = <<8800, 8800, 8800, 0, 0>>
    /\ ref_features.pitch_times = <<0, 20000, 40000, 60000, 80000>>
    /\ MaxRefT = 502400
    /\ Len(ref_notes) = 1
    /\ ref_notes[1].endTime = 8000

-----------------------------------------------------------------------------
(* Success and failure of one request *)

\* C30 as stated: once the VocalPracticeSession row is inserted, the job is
\* never set to FAILED and the quota is never refunded.
C30_SavedNeverFailed ==
    sessions # <<>> =>
        /\ job.status # "FAILED"
        /\ quota = env.freeSecondsUsed

\* The UPDATE that marks the job COMPLETED fails after the session row was
\* committed: the handler marks the job FAILED and refunds thirty seconds,
\* and the session row stays.
C30_SavedThenFailed ==
    /\ pc = "rejected"
    /\ env.fails_at = "completing"
    /\ env.handler_fails_at = "none"
    /\ env.freeSecondsUsed = 100
    /\ req.recordingDurationMs = 30000
    /\ Len(sessions) = 1
    /\ job.status = "FAILED"
    /\ job.stage = Some("saving")
    /\ job.practiceSessionId = None
    /\ quota = 70

\* Once the job is COMPLETED the request is answered: the job stays
\* COMPLETED and the quota stays as it was.
C30_CompletedStays ==
    job.status = "COMPLETED" =>
        /\ pc = "responded"
        /\ Len(sessions) = 1
        /\ job.practiceSessionId = Some(sessions[1].id)
        /\ quota = env.freeSecondsUsed

\* A request without a reference, every step succeeding.
C30_Completed ==
    /\ job.status = "COMPLETED"
    /\ env.fails_at = "none"
    /\ ref_features = None
    /\ Len(sessions) = 1

=============================================================================
